---------------------------- MODULE Spec2Model ----------------------------
(***************************************************************************)
(* Model of the adjudication pipeline of gmkqna:                           *)
(*   prepare_adjudication.py   raw export -> disagreed / agreed lists      *)
(*   adjudication_storage.py   the progress store (one JSON snapshot)      *)
(*   adjudication_app.py       the Streamlit session (login, queue,        *)
(*                             review, dashboard) and the remote mirror    *)
(*   merge_final_dataset.py    agreed + adjudicated -> canonical rows      *)
(*                                                                         *)
(* Text that the code trims or tests for emptiness (ratings, findings,     *)
(* preferences, raw cells) is a sequence of one-character strings, so that *)
(* str.strip() is computed and not assumed.  Dictionary keys, column names *)
(* and identifiers are TLA+ strings.                                       *)
(***************************************************************************)
EXTENDS Integers, Sequences, FiniteSets, TLC

VARIABLES
    export,      \* the raw evaluation CSV handed to prepare_adjudication.py
    prep,        \* what prepare_adjudication_data returned (or that it raised)
    progress,    \* adjudication_progress.json: query_key -> AdjudicationRecord
    recovered,   \* return value of the last rebuild_progress_from_sheets call
    merged,      \* what merge() last produced, with the snapshot it read
    screen,      \* st.session_state.screen
    group,       \* st.session_state.group
    selected_query_key,         \* st.session_state.selected_query_key
    is_admin,                   \* st.session_state.is_admin
    login_error,                \* st.session_state.login_error
    auto_recovery_attempted,    \* st.session_state.auto_recovery_attempted
    pc,          \* position inside the Submit handler: "idle" or "pushing"
    pending,     \* adjudication_data of the submit whose POST is in flight
    sheets_ok,   \* result of the last submit_adjudication_to_sheets call
    pulls,       \* GETs this session has sent to the remote mirror
    observed,    \* what the last step was seen to do: a Submit click and
                 \* whether it was refused, or the outcome of a POST
    unreadable,  \* adjudication_progress.json exists and json.load raises on it
    calls,       \* per session: the save_adjudication call in progress, with
                 \* its local variable `progress`
    saved,       \* keys whose save_adjudication call has returned since the
                 \* snapshot was last unreadable
    last_save,   \* what the save_adjudication call that returned last did
    evaluations, \* evaluations.json of the primary tool: key -> status record
    app,         \* the evaluator's session of the primary tool (app.py):
                 \* screen, evaluator, selected_query, login_error, pref_error
    recovery     \* load_data of another session of the primary tool: "idle", or
                 \* "pulling" while its GET is in flight

prepVars  == <<export, prep>>
storeVars == <<progress, recovered>>
mergeVars == <<merged>>
sessVars  == <<screen, group, selected_query_key, is_admin, login_error,
               auto_recovery_attempted, pc, pending, sheets_ok, pulls, observed>>
fileVars  == <<unreadable, calls, saved, last_save>>
evalVars  == <<evaluations, app, recovery>>
vars      == <<prepVars, storeVars, mergeVars, sessVars, fileVars, evalVars>>

---------------------------------------------------------------------------
(* Text *)

SP  == " "
\* a raw CSV cell that pandas reads as NaN (an empty cell)
NaN == <<"NaN">>
\* Python's None (a radio button nothing was selected on)
None == <<"None">>
EMPTY == <<>>

RECURSIVE lstrip(_)
lstrip(s) == IF s # <<>> /\ Head(s) = SP THEN lstrip(Tail(s)) ELSE s

RECURSIVE rstrip(_)
rstrip(s) == IF s # <<>> /\ s[Len(s)] = SP THEN rstrip(SubSeq(s, 1, Len(s) - 1)) ELSE s

\* str.strip()
strip(s) == rstrip(lstrip(s))

clean_str_nostrip(val) == IF val = NaN THEN EMPTY ELSE val
\* clean_str: NaN becomes '', anything else is stripped
clean_str(val) == IF val = NaN THEN EMPTY ELSE strip(val)

\* the digits of a query number, as f'{query_num}' prints them
IntStr(n) == CASE n = 0 -> "0" [] n = 1 -> "1" [] n = 2 -> "2" [] n = 3 -> "3"
               [] n = 4 -> "4" [] n = 5 -> "5" [] n = 6 -> "6" [] n = 7 -> "7"
               [] n = 8 -> "8" [] OTHER -> "9"

\* the elements of a sequence
Range(s) == {s[i] : i \in DOMAIN s}

\* dict.get(key, default)
Get(d, k, default) == IF k \in DOMAIN d THEN d[k] ELSE default

---------------------------------------------------------------------------
(* prepare_adjudication.py *)

\* the metric keys of METRIC_COLS_A / METRIC_COLS_B, in dictionary order
MetricOrder == <<"source", "hallucination", "safety", "content", "extraneous", "flow">>
MetricBases == Range(MetricOrder)

METRIC_COLS_A ==
    [source        |-> <<"Source Accuracy", "Source Accuracy Findings">>,
     hallucination |-> <<"Hallucination - Fabrication", "Hallucination findings">>,
     safety        |-> <<"Safety Omission", "Safety Omission Findings">>,
     content       |-> <<"Content Omission", "Content Omission Findings">>,
     extraneous    |-> <<"Extraneous Information", "Extraneous Information Findings">>,
     flow          |-> <<"Flow", "Flow Findings">>]

METRIC_COLS_B ==
    [source        |-> <<"Source Accuracy.1", "Source Accuracy Findings.1">>,
     hallucination |-> <<"Hallucination - Fabrication.1", "Hallucination findings.1">>,
     safety        |-> <<"Safety Omission.1", "Safety Omission Findings.1">>,
     content       |-> <<"Content Omission.1", "Content Omission Findings.1">>,
     extraneous    |-> <<"Extraneous Information.1", "Extraneous Information Findings.1">>,
     flow          |-> <<"Flow.1", "Flow Findings.1">>]

GroupOrder == <<"A", "B", "C">>
Groups == Range(GroupOrder)

EVALUATOR_PAIRS ==
    [A |-> <<"Evaluator 1", "Evaluator 2">>,
     B |-> <<"Evaluator 3", "Evaluator 4">>,
     C |-> <<"Evaluator 5", "Evaluator 6">>]

\* the columns prepare_adjudication_data indexes with df[...] / set_index:
\* a missing one raises KeyError
IndexColumns == {"Group", "Evaluator", "Patient ID", "Query"}
\* the columns it reads with row.get(col, '')
RatingColumns == {METRIC_COLS_A[b][1] : b \in MetricBases} \cup {METRIC_COLS_B[b][1] : b \in MetricBases}
FindingsColumns == {METRIC_COLS_A[b][2] : b \in MetricBases} \cup {METRIC_COLS_B[b][2] : b \in MetricBases}
PreferenceColumns == {"Model Preference", "Preference Reasons"}
GetColumns == RatingColumns \cup FindingsColumns \cup PreferenceColumns
ExpectedColumns == IndexColumns \cup GetColumns

FindingsKey(b) == b \o "_findings"
\* key.endswith('_findings'), over the keys a ratings dictionary has
EndsWithFindings(key) == \E b \in MetricBases : key = FindingsKey(b)

\* the keys of the dictionary extract_evaluator_ratings builds, in insertion order
RECURSIVE RatingsKeyOrderFrom(_)
RatingsKeyOrderFrom(i) ==
    IF i > Len(MetricOrder) THEN <<>>
    ELSE <<MetricOrder[i], FindingsKey(MetricOrder[i])>> \o RatingsKeyOrderFrom(i + 1)
RatingsKeyOrder == RatingsKeyOrderFrom(1)

\* row.get(col, ''): the cell, or '' when the export has no such column
RowGet(row, col) == IF col \in DOMAIN row.cells THEN row.cells[col] ELSE EMPTY

extract_evaluator_ratings(row, metric_cols) ==
    [key \in Range(RatingsKeyOrder) |->
        IF EndsWithFindings(key)
        THEN LET b == CHOOSE x \in MetricBases : key = FindingsKey(x)
             IN clean_str(RowGet(row, metric_cols[b][2]))
        ELSE clean_str(RowGet(row, metric_cols[key][1]))]

compare_ratings(e1_ratings, e2_ratings) ==
    SelectSeq(RatingsKeyOrder,
              LAMBDA key : ~EndsWithFindings(key) /\ e1_ratings[key] # e2_ratings[key])

\* [f(k) for k in seq]
RECURSIVE MapSuffix(_, _)
MapSuffix(seq, suffix) ==
    IF seq = <<>> THEN <<>> ELSE <<Head(seq) \o suffix>> \o MapSuffix(Tail(seq), suffix)

query_key_of(patient_id, query_num) == patient_id \o "_" \o IntStr(query_num)

\* the body of the loop over common_queries: one query record
build_query_record(g, patient_id, query_num, e1_row, e2_row) ==
    LET e1_model_a == extract_evaluator_ratings(e1_row, METRIC_COLS_A)
        e1_model_b == extract_evaluator_ratings(e1_row, METRIC_COLS_B)
        e2_model_a == extract_evaluator_ratings(e2_row, METRIC_COLS_A)
        e2_model_b == extract_evaluator_ratings(e2_row, METRIC_COLS_B)
        e1_preference   == clean_str(RowGet(e1_row, "Model Preference"))
        e1_pref_reasons == clean_str(RowGet(e1_row, "Preference Reasons"))
        e2_preference   == clean_str(RowGet(e2_row, "Model Preference"))
        e2_pref_reasons == clean_str(RowGet(e2_row, "Preference Reasons"))
        model_a_disagreements == MapSuffix(compare_ratings(e1_model_a, e2_model_a), "_a")
        model_b_disagreements == MapSuffix(compare_ratings(e1_model_b, e2_model_b), "_b")
        pref_disagreement == IF e1_preference # e2_preference THEN <<"preference">> ELSE <<>>
        all_disagreements == model_a_disagreements \o model_b_disagreements \o pref_disagreement
    IN [query_key  |-> query_key_of(patient_id, query_num),
        patient_id |-> patient_id,
        query_num  |-> query_num,
        group      |-> g,
        evaluator_1 |-> [name |-> EVALUATOR_PAIRS[g][1],
                         model_a |-> e1_model_a, model_b |-> e1_model_b,
                         preference |-> e1_preference,
                         preference_reasons |-> e1_pref_reasons],
        evaluator_2 |-> [name |-> EVALUATOR_PAIRS[g][2],
                         model_a |-> e2_model_a, model_b |-> e2_model_b,
                         preference |-> e2_preference,
                         preference_reasons |-> e2_pref_reasons],
        disagreements   |-> all_disagreements,
        n_disagreements |-> Len(all_disagreements)]

\* the canonical ratings stored with an agreed query
with_canonical(rec) ==
    [query_key |-> rec.query_key, patient_id |-> rec.patient_id,
     query_num |-> rec.query_num, group |-> rec.group,
     evaluator_1 |-> rec.evaluator_1, evaluator_2 |-> rec.evaluator_2,
     disagreements |-> rec.disagreements, n_disagreements |-> rec.n_disagreements,
     canonical |-> [model_a |-> rec.evaluator_1.model_a,
                    model_b |-> rec.evaluator_1.model_b,
                    preference |-> rec.evaluator_1.preference,
                    preference_reasons |-> rec.evaluator_1.preference_reasons]]


\* the patient ids of the model, in the order pandas sorts them
PatientIds == <<"P1", "P2">>
\* query numbers are 1..MaxQueryNum
MaxQueryNum == 2

\* every (Patient ID, Query) index value, in sort_index() order
IndexOrder ==
    [i \in 1..(Len(PatientIds) * MaxQueryNum) |->
        <<PatientIds[((i - 1) \div MaxQueryNum) + 1], ((i - 1) % MaxQueryNum) + 1>>]

\* group_df[group_df['Evaluator'] == name] for the rows of one group
EvaluatorRows(ex, g, name) == {r \in ex.rows : r.group = g /\ r.evaluator = name}
RowsAt(rows, idx) == {r \in rows : <<r.patient, r.query>> = idx}
IndexOf(rows) == {<<r.patient, r.query>> : r \in rows}

\* e1_df.index.intersection(e2_df.index), sorted
common_queries(ex, g) ==
    SelectSeq(IndexOrder,
              LAMBDA idx : idx \in IndexOf(EvaluatorRows(ex, g, EVALUATOR_PAIRS[g][1]))
                                   \cap IndexOf(EvaluatorRows(ex, g, EVALUATOR_PAIRS[g][2])))

\* e1_df.loc[query_idx] is one row (a Series) only when the index value is
\* not repeated; with a repeated value it is a DataFrame, clean_str's
\* `if pd.isna(val)` then raises ValueError on the first column it reads
LocIsAmbiguous(ex, g) ==
    /\ ex.columns \cap GetColumns # {}
    /\ \E i \in DOMAIN common_queries(ex, g), k \in 1..2 :
          Cardinality(RowsAt(EvaluatorRows(ex, g, EVALUATOR_PAIRS[g][k]),
                             common_queries(ex, g)[i])) > 1

\* the query records of one group, in loop order
group_records(ex, g) ==
    LET cq == common_queries(ex, g)
        e1 == EvaluatorRows(ex, g, EVALUATOR_PAIRS[g][1])
        e2 == EvaluatorRows(ex, g, EVALUATOR_PAIRS[g][2])
    IN [i \in DOMAIN cq |->
           build_query_record(g, cq[i][1], cq[i][2],
                              CHOOSE r \in RowsAt(e1, cq[i]) : TRUE,
                              CHOOSE r \in RowsAt(e2, cq[i]) : TRUE)]

RECURSIVE all_records_from(_, _)
all_records_from(ex, gi) ==
    IF gi > Len(GroupOrder) THEN <<>>
    ELSE group_records(ex, GroupOrder[gi]) \o all_records_from(ex, gi + 1)

GroupPos(g) == CHOOSE i \in DOMAIN GroupOrder : GroupOrder[i] = g

\* the sort key (x['group'], x['query_num']), strictly smaller
KeyBefore(a, b) ==
    \/ GroupPos(a.group) < GroupPos(b.group)
    \/ a.group = b.group /\ a.query_num < b.query_num

\* list.sort(key=...): a stable sort
RECURSIVE sort_by_group_query(_)
sort_by_group_query(seq) ==
    IF seq = <<>> THEN <<>>
    ELSE LET rest == sort_by_group_query(SubSeq(seq, 1, Len(seq) - 1))
             x    == seq[Len(seq)]
             k    == Cardinality({i \in DOMAIN rest : ~KeyBefore(x, rest[i])})
         IN SubSeq(rest, 1, k) \o <<x>> \o SubSeq(rest, k + 1, Len(rest))

\* if all_disagreements: disagreements.append(...) else: agreed.append(...)
goes_to_disagreements_always(rec) == TRUE
goes_to_disagreements_never(rec) == FALSE
goes_to_disagreements(rec) == rec.disagreements # <<>>

RECURSIVE canonical_all(_)
canonical_all(seq) ==
    IF seq = <<>> THEN <<>> ELSE <<with_canonical(Head(seq))>> \o canonical_all(Tail(seq))

PrepError == [status |-> "error", disagreements |-> <<>>, agreed |-> <<>>]
NotPrepared == [status |-> "none", disagreements |-> <<>>, agreed |-> <<>>]

prepare_adjudication_data(ex) ==
    IF ~(IndexColumns \subseteq ex.columns) THEN PrepError          \* KeyError
    ELSE IF \E g \in Groups : LocIsAmbiguous(ex, g) THEN PrepError  \* ValueError
    ELSE LET all == all_records_from(ex, 1)
         IN [status |-> "ok",
             disagreements |-> sort_by_group_query(
                                   SelectSeq(all, LAMBDA r : goes_to_disagreements(r))),
             agreed |-> sort_by_group_query(
                            canonical_all(SelectSeq(all, LAMBDA r : ~goes_to_disagreements(r))))]

---------------------------------------------------------------------------
(* The raw exports the model draws from *)

NO  == <<"N">>
YES == <<"Y">>
MODEL_A == <<"A">>
MODEL_B == <<"B">>
TXT == <<"x">>

\* a row where every metric passes, model A is preferred and nothing is written
BaseCells ==
    [col \in GetColumns |->
        IF col \in RatingColumns THEN NO
        ELSE IF col = "Model Preference" THEN MODEL_A
        ELSE NaN]

\* the base row with four cells replaced
Cells(ha, hfind, fb, pref) ==
    [col \in GetColumns |->
        CASE col = "Hallucination - Fabrication" -> ha
          [] col = "Hallucination findings"      -> hfind
          [] col = "Flow.1"                      -> fb
          [] col = "Model Preference"            -> pref
          [] OTHER                               -> BaseCells[col]]

\* a row that differs from the base row in every rating and in the preference
OppositeCells ==
    [col \in GetColumns |->
        IF col \in RatingColumns THEN YES
        ELSE IF col = "Model Preference" THEN MODEL_B
        ELSE NaN]

HallucinationCells == {NaN, NO, <<SP, "Y", SP>>, YES}
FindingsCells      == {NaN, TXT}
FlowCells          == {NO, YES}
PreferenceCells    == {MODEL_A, MODEL_B}

VariedCells ==
    {Cells(ha, hfind, fb, pref) :
        ha \in HallucinationCells, hfind \in FindingsCells,
        fb \in FlowCells, pref \in PreferenceCells}

Row(g, name, p, q, cells) ==
    [group |-> g, evaluator |-> name, patient |-> p, query |-> q, cells |-> cells]

\* rows beside the two varied ones
ExtraRows ==
    { {},
      \* the same (patient, query) listed under group B as well, agreed there
      { Row("B", "Evaluator 3", "P1", 1, BaseCells),
        Row("B", "Evaluator 4", "P1", 1, BaseCells) },
      \* more queries of group A, one rated by a single evaluator, and group C
      { Row("A", "Evaluator 1", "P2", 1, Cells(YES, NaN, NO, MODEL_A)),
        Row("A", "Evaluator 2", "P2", 1, BaseCells),
        Row("A", "Evaluator 1", "P1", MaxQueryNum, BaseCells),
        Row("C", "Evaluator 5", "P2", MaxQueryNum, BaseCells),
        Row("C", "Evaluator 6", "P2", MaxQueryNum, OppositeCells) },
      \* evaluator 1 submitted (P1, 1) a second time, with other findings
      { Row("A", "Evaluator 1", "P1", 1, Cells(YES, TXT \o TXT, YES, MODEL_B)) } }

ColumnSets ==
    { ExpectedColumns,
      ExpectedColumns \ {"Flow.1"},
      ExpectedColumns \ {"Model Preference"},
      ExpectedColumns \ {"Evaluator"} }

\* a CSV with these columns only
WithColumns(rows, cols) ==
    [columns |-> cols,
     rows |-> {[group |-> r.group, evaluator |-> r.evaluator, patient |-> r.patient,
                query |-> r.query,
                cells |-> [c \in (GetColumns \cap cols) |-> r.cells[c]]] : r \in rows}]

NoExport == [columns |-> {}, rows |-> {}]

\* the rows evaluator 2 gave for (P1, 1): none, or one varied row
SecondRows == {{}} \cup {{Row("A", "Evaluator 2", "P1", 1, c2)} : c2 \in VariedCells}

\* an export: evaluator 1's row for (P1, 1), evaluator 2's, the extra rows
ExportOf(c1, r2, extra, cols) ==
    WithColumns({Row("A", "Evaluator 1", "P1", 1, c1)} \cup r2 \cup extra, cols)

---------------------------------------------------------------------------
(* The partition files the adjudication app and merge() read *)

\* an export of four queries: three disagreed (two of group A, one of
\* group B) and one agreed
SampleExport ==
    WithColumns(
      { Row("A", "Evaluator 1", "P1", 1, BaseCells),
        Row("A", "Evaluator 2", "P1", 1, Cells(YES, TXT, NO, MODEL_B)),
        Row("A", "Evaluator 1", "P1", 2, BaseCells),
        Row("A", "Evaluator 2", "P1", 2, Cells(NO, NaN, YES, MODEL_A)),
        Row("B", "Evaluator 3", "P2", 1, Cells(YES, TXT, NO, MODEL_A)),
        Row("B", "Evaluator 4", "P2", 1, BaseCells),
        Row("B", "Evaluator 3", "P2", 2, Cells(NO, TXT, YES, MODEL_B)),
        Row("B", "Evaluator 4", "P2", 2, Cells(NO, NaN, YES, MODEL_B)) },
      ExpectedColumns)

\* disagreements.json and agreed_queries.json
DisagreementsFile == prepare_adjudication_data(SampleExport).disagreements
AgreedFile        == prepare_adjudication_data(SampleExport).agreed

QueryKeys == {DisagreementsFile[i].query_key : i \in DOMAIN DisagreementsFile}

---------------------------------------------------------------------------
(* adjudication_storage.py *)

\* An AdjudicationRecord is a dictionary: "completed" -> BOOLEAN and one
\* entry per metric key, an entry being a dictionary over "rating",
\* "findings", "root_cause", "root_cause_detail", and "timestamp" -> an
\* instant.  Instants are abstract: Now is datetime.now() of the call,
\* Earlier an instant a remote submission may carry.
EmptyDict == <<>>
Now == "now"
Earlier == "earlier"

\* {'completed': True, 'timestamp': timestamp, **data}
stamped_record(timestamp, data) ==
    [k \in {"completed", "timestamp"} \cup DOMAIN data |->
        IF k \in DOMAIN data THEN data[k]
        ELSE IF k = "completed" THEN TRUE ELSE timestamp]

\* the record save_adjudication builds (lines 54-58)
completed_record(adjudication_data) == stamped_record(Now, adjudication_data)

\* progress[query_key] = record
SetKey_alone(prog, query_key, record) == [k \in {query_key} |-> record]
SetKey(prog, query_key, record) ==
    [k \in DOMAIN prog \cup {query_key} |-> IF k = query_key THEN record ELSE prog[k]]

\* a save that marks the record completed only when the key was not
save_adjudication_toggling(prog, query_key, adjudication_data) ==
    SetKey(prog, query_key,
           [completed_record(adjudication_data) EXCEPT
               !["completed"] = ~Get(Get(prog, query_key, EmptyDict), "completed", FALSE)])
save_adjudication(prog, query_key, adjudication_data) ==
    SetKey(prog, query_key, completed_record(adjudication_data))

\* progress.get(query_key, None)
get_adjudication_status(prog, query_key) == Get(prog, query_key, None)

\* progress.get(key, {}).get('completed', False)
is_completed(prog, query_key) == Get(Get(prog, query_key, EmptyDict), "completed", FALSE)

\* The float completed / total * 100 is kept as the fraction it rounds:
\* num / den with den > 0.  The double equals the fraction whenever the
\* fraction is a whole number (3 / 10 * 100 is 30.0) and is within one
\* rounding of it otherwise.  A total of 0 gives the literal 0.
percent(completed, total) ==
    IF total > 0 THEN [num |-> completed * 100, den |-> total]
    ELSE [num |-> 0, den |-> 1]

\* lines 72-78 and 85-91: the dictionary both aggregates return for the
\* queries they count
progress_counts_stored(prog, queries) ==
    LET total == Len(queries)
        completed == Cardinality({i \in DOMAIN queries : queries[i].query_key \in DOMAIN prog})
    IN [total |-> total, completed |-> completed,
        remaining |-> total - completed, percent |-> percent(completed, total)]
progress_counts(prog, queries) ==
    LET total == Len(queries)
        completed == Cardinality({i \in DOMAIN queries : is_completed(prog, queries[i].query_key)})
    IN [total |-> total, completed |-> completed,
        remaining |-> total - completed, percent |-> percent(completed, total)]

get_group_progress(prog, g, disagreements) ==
    progress_counts(prog, SelectSeq(disagreements, LAMBDA d : d.group = g))

get_all_progress(prog, disagreements) == progress_counts(prog, disagreements)

\* load_progress (lines 16-25): the snapshot, or {} when the file is missing
\* (the store then is EmptyDict) or json.load raises; it never raises itself
load_progress_stale(prog, is_unreadable) == prog
load_progress(prog, is_unreadable) == IF is_unreadable THEN EmptyDict ELSE prog

\* the test of line 116
may_overwrite_always(prog, qk) == TRUE
may_overwrite_present(prog, qk) == qk \in DOMAIN prog
may_overwrite(prog, qk) == qk \notin DOMAIN prog \/ ~Get(prog[qk], "completed", FALSE)

\* the loop of rebuild_progress_from_sheets: [progress, count] after the
\* submissions from position i on.  A submission without 'query_key' has
\* query_key = "", one without 'adjudication_data' has the empty dictionary.
RECURSIVE rebuild_loop(_, _, _, _)
rebuild_loop(prog, count, submissions, i) ==
    IF i > Len(submissions) THEN [progress |-> prog, count |-> count]
    ELSE LET qk       == submissions[i].query_key
             adj_data == submissions[i].adjudication_data
         IN IF qk = "" \/ adj_data = EmptyDict
            THEN rebuild_loop(prog, count, submissions, i + 1)
            ELSE IF may_overwrite(prog, qk)
            THEN rebuild_loop(
                     SetKey(prog, qk,
                            stamped_record(Get(submissions[i], "timestamp", Now), adj_data)),
                     count + 1, submissions, i + 1)
            ELSE rebuild_loop(prog, count, submissions, i + 1)

\* [progress |-> the snapshot on disk afterwards, count |-> the return value]
rebuild_progress_from_sheets(prog, submissions) ==
    LET r == rebuild_loop(prog, 0, submissions, 1)
    IN [progress |-> IF r.count > 0 THEN r.progress ELSE prog, count |-> r.count]

---------------------------------------------------------------------------
(* What the remote mirror may answer to the GET of recover_progress_from_sheets *)

ROOT_CAUSE_OPTIONS ==
    <<"Select root cause...",
      "One evaluator missed a specific finding",
      "Both evaluators saw the same issue but disagreed on severity",
      "The metric rubric was unclear or ambiguous",
      "One evaluator made a clear mistake">>
ROOT_CAUSE_UNSET == ROOT_CAUSE_OPTIONS[1]

Entry(rating, findings, root_cause) ==
    [rating |-> rating, findings |-> findings, root_cause |-> root_cause,
     root_cause_detail |-> EMPTY]

Submission(qk, adj_data) == [query_key |-> qk, adjudication_data |-> adj_data]

\* a complete adjudication of P1_1 as the sheet may hold it
RemoteP1 == [hallucination_a |-> Entry(YES, TXT, ROOT_CAUSE_OPTIONS[3]),
             preference      |-> Entry(MODEL_B, TXT, ROOT_CAUSE_OPTIONS[3])]

RemoteLists ==
    { \* one complete record, with the time it was submitted
      << [query_key |-> "P1_1", adjudication_data |-> RemoteP1, timestamp |-> Earlier] >>,
      \* a record that lacks one of the query's metrics, then the complete one
      << Submission("P1_1", [hallucination_a |-> Entry(YES, TXT, ROOT_CAUSE_OPTIONS[3])]),
         Submission("P1_1", RemoteP1) >>,
      \* the complete record, and entries without rating, findings or root cause
      << Submission("P1_1", RemoteP1),
         Submission("P1_2", [flow_b |-> Entry(EMPTY, EMPTY, ROOT_CAUSE_UNSET)]) >>,
      \* a record without key, one without data, one flagged not completed
      << Submission("", RemoteP1),
         Submission("P2_1", EmptyDict),
         Submission("P2_1", [completed |-> FALSE,
                             hallucination_a |-> Entry(NO, TXT, ROOT_CAUSE_OPTIONS[2])]) >>,
      \* an entry without rating, and a record under the key of an agreed query
      << Submission("P2_1", [hallucination_a |-> [findings |-> TXT]]),
         Submission("P2_2", [flow_b |-> Entry(NO, TXT, ROOT_CAUSE_OPTIONS[2])]) >>,
      \* two records of one key, the first flagged not completed
      << Submission("P2_1", [completed |-> FALSE,
                             hallucination_a |-> Entry(NO, TXT, ROOT_CAUSE_OPTIONS[2])]),
         Submission("P2_1", [hallucination_a |-> Entry(YES, TXT, ROOT_CAUSE_OPTIONS[2])]) >> }

\* the GET: it raises (timeout, connection error, invalid JSON), or answers
\* with a status code and a JSON body
PullResponses ==
    { [raised |-> TRUE,  status_code |-> 0,   body |-> <<>>],
      [raised |-> FALSE, status_code |-> 500, body |-> <<>>],
      [raised |-> FALSE, status_code |-> 200, body |-> <<>>] }
    \cup { [raised |-> FALSE, status_code |-> 200, body |-> l] : l \in RemoteLists }

\* recover_progress_from_sheets: [progress, count]
recover_progress_from_sheets(prog, response) ==
    IF ~response.raised /\ response.status_code = 200 /\ Len(response.body) > 0
    THEN rebuild_progress_from_sheets(prog, response.body)
    ELSE [progress |-> prog, count |-> 0]


---------------------------------------------------------------------------
(* merge_final_dataset.py *)

METRIC_COL_MAP ==
    [source        |-> <<"Source Accuracy", "Source Accuracy Findings">>,
     hallucination |-> <<"Hallucination - Fabrication", "Hallucination Findings">>,
     safety        |-> <<"Safety Omission", "Safety Omission Findings">>,
     content       |-> <<"Content Omission", "Content Omission Findings">>,
     extraneous    |-> <<"Extraneous Information", "Extraneous Information Findings">>,
     flow          |-> <<"Flow", "Flow Findings">>]

\* metric_key.endswith('_a') / ('_b') and metric_key[:-2], over the metric keys
EndsWith(metric_key, suffix) == \E b \in MetricBases : metric_key = b \o suffix
BaseOf(metric_key, suffix) == CHOOSE b \in MetricBases : metric_key = b \o suffix

\* the columns of an output row (the display-only columns Query Type, PHI
\* Dependency, Patient Summary and Query Text are left out)
RowColumns ==
    {"Patient ID", "Query", "Group", "Model Preference", "Preference Reasons",
     "Adjudication Status"}
    \cup {"Model A - " \o METRIC_COL_MAP[b][k] : b \in MetricBases, k \in 1..2}
    \cup {"Model B - " \o METRIC_COL_MAP[b][k] : b \in MetricBases, k \in 1..2}

\* the value build_row puts under a metric column
MetricCell(col, prefix, model) ==
    LET b == CHOOSE x \in MetricBases : \E k \in 1..2 : col = prefix \o METRIC_COL_MAP[x][k]
    IN IF col = prefix \o METRIC_COL_MAP[b][1]
       THEN Get(model, b, EMPTY)
       ELSE Get(model, FindingsKey(b), EMPTY)

build_row(query, model_a, model_b, preference, preference_reasons, adjudication_status) ==
    [col \in RowColumns |->
        CASE col = "Patient ID"          -> query.patient_id
          [] col = "Query"               -> query.query_num
          [] col = "Group"               -> query.group
          [] col = "Model Preference"    -> preference
          [] col = "Preference Reasons"  -> preference_reasons
          [] col = "Adjudication Status" -> adjudication_status
          [] \E b \in MetricBases, k \in 1..2 : col = "Model A - " \o METRIC_COL_MAP[b][k]
               -> MetricCell(col, "Model A - ", model_a)
          [] OTHER -> MetricCell(col, "Model B - ", model_b)]

\* one pass of the loop of lines 107-122 over the ratings being built
override(acc, adj, metric_key) ==
    LET adj_metric == Get(adj, metric_key, EmptyDict)
    IN IF adj_metric = EmptyDict THEN acc
       ELSE IF metric_key = "preference"
       THEN [acc EXCEPT !.preference = Get(adj_metric, "rating", acc.preference),
                        !.preference_reasons =
                            Get(adj_metric, "findings", acc.preference_reasons)]
       ELSE IF EndsWith(metric_key, "_a")
       THEN LET base == BaseOf(metric_key, "_a")
            IN [acc EXCEPT !.model_a =
                   [k \in DOMAIN acc.model_a \cup {base, FindingsKey(base)} |->
                       IF k = base
                       THEN Get(adj_metric, "rating", Get(acc.model_a, base, EMPTY))
                       ELSE IF k = FindingsKey(base)
                       THEN Get(adj_metric, "findings", Get(acc.model_a, FindingsKey(base), EMPTY))
                       ELSE acc.model_a[k]]]
       ELSE IF EndsWith(metric_key, "_b")
       THEN LET base == BaseOf(metric_key, "_b")
            IN [acc EXCEPT !.model_b =
                   [k \in DOMAIN acc.model_b \cup {base, FindingsKey(base)} |->
                       IF k = base
                       THEN Get(adj_metric, "rating", Get(acc.model_b, base, EMPTY))
                       ELSE IF k = FindingsKey(base)
                       THEN Get(adj_metric, "findings", Get(acc.model_b, FindingsKey(base), EMPTY))
                       ELSE acc.model_b[k]]]
       ELSE acc

RECURSIVE override_all(_, _, _, _)
override_all(acc, adj, keys, i) ==
    IF i > Len(keys) THEN acc
    ELSE override_all(override(acc, adj, keys[i]), adj, keys, i + 1)

\* `if not adj or not adj.get('completed')`
not_adjudicated_if_absent(adj) == adj = EmptyDict
not_adjudicated(adj) == adj = EmptyDict \/ ~Get(adj, "completed", FALSE)

\* the output row of one disagreed, adjudicated query
adjudicated_row(q, adj) ==
    LET base == [model_a |-> q.evaluator_1.model_a,
                 model_b |-> q.evaluator_1.model_b,
                 preference |-> q.evaluator_1.preference,
                 preference_reasons |-> q.evaluator_1.preference_reasons]
        final == override_all(base, adj, q.disagreements, 1)
    IN build_row(q, final.model_a, final.model_b, final.preference,
                 final.preference_reasons, "adjudicated")

agreed_row_swapped(q) ==
    build_row(q, q.canonical.model_b, q.canonical.model_a, q.canonical.preference,
              q.canonical.preference_reasons, "agreed")
agreed_row(q) ==
    build_row(q, q.canonical.model_a, q.canonical.model_b, q.canonical.preference,
              q.canonical.preference_reasons, "agreed")

RECURSIVE agreed_rows(_, _)
agreed_rows(agreed, i) ==
    IF i > Len(agreed) THEN <<>>
    ELSE <<agreed_row(agreed[i])>> \o agreed_rows(agreed, i + 1)

\* the loop of lines 94-131: [rows, missing]
RECURSIVE disagreed_rows(_, _, _)
disagreed_rows(disagreements, prog, i) ==
    IF i > Len(disagreements) THEN [rows |-> <<>>, missing |-> <<>>]
    ELSE LET q    == disagreements[i]
             adj  == Get(prog, q.query_key, EmptyDict)
             rest == disagreed_rows(disagreements, prog, i + 1)
         IN IF not_adjudicated(adj)
            THEN [rows |-> rest.rows, missing |-> <<q.query_key>> \o rest.missing]
            ELSE [rows |-> <<adjudicated_row(q, adj)>> \o rest.rows,
                  missing |-> rest.missing]

RowBefore(a, b) ==
    \/ GroupPos(a["Group"]) < GroupPos(b["Group"])
    \/ a["Group"] = b["Group"] /\ a["Query"] < b["Query"]

\* df.sort_values(['Group', 'Query']): pandas sorts several keys with a
\* stable lexsort
RECURSIVE sort_values(_)
sort_values(seq) ==
    IF seq = <<>> THEN <<>>
    ELSE LET rest == sort_values(SubSeq(seq, 1, Len(seq) - 1))
             x    == seq[Len(seq)]
             k    == Cardinality({i \in DOMAIN rest : ~RowBefore(x, rest[i])})
         IN SubSeq(rest, 1, k) \o <<x>> \o SubSeq(rest, k + 1, Len(rest))

NotMerged == [status |-> "none", rows |-> <<>>, missing |-> <<>>, read |-> EmptyDict]

\* merge(): the rows of final_adjudicated.csv and the missing list, with the
\* snapshot it read.  With no row at all the DataFrame has no 'Group'
\* column and sort_values raises KeyError.
merge(agreed, disagreements, prog) ==
    LET d    == disagreed_rows(disagreements, prog, 1)
        rows == agreed_rows(agreed, 1) \o d.rows
    IN IF rows = <<>>
       THEN [status |-> "error", rows |-> <<>>, missing |-> d.missing, read |-> prog]
       ELSE [status |-> "ok", rows |-> sort_values(rows), missing |-> d.missing,
             read |-> prog]


---------------------------------------------------------------------------
(* adjudication_app.py: the Review form *)

\* adjudication_storage.py, export_calibration_data: the rows of lines
\* 152-188 for one query d and its record adj, over d['disagreements'] from
\* position i (the display fields query_type and the evaluator names are
\* left out)
calibration_row(d, adj, metric_key) ==
    LET model == IF metric_key = "preference" THEN "comparison"
                 ELSE IF EndsWith(metric_key, "_a") THEN "A" ELSE "B"
        e1_val == IF metric_key = "preference" THEN d.evaluator_1.preference
                  ELSE IF EndsWith(metric_key, "_a")
                  THEN Get(d.evaluator_1.model_a, BaseOf(metric_key, "_a"), EMPTY)
                  ELSE Get(d.evaluator_1.model_b, BaseOf(metric_key, "_b"), EMPTY)
        e2_val == IF metric_key = "preference" THEN d.evaluator_2.preference
                  ELSE IF EndsWith(metric_key, "_a")
                  THEN Get(d.evaluator_2.model_a, BaseOf(metric_key, "_a"), EMPTY)
                  ELSE Get(d.evaluator_2.model_b, BaseOf(metric_key, "_b"), EMPTY)
        adj_data == Get(adj, metric_key, EmptyDict)
    IN [query_key |-> d.query_key, patient_id |-> d.patient_id,
        query_num |-> d.query_num, group |-> d.group,
        metric |-> metric_key, model |-> model,
        evaluator_1_rating |-> e1_val, evaluator_2_rating |-> e2_val,
        adjudicated_rating |-> Get(adj_data, "rating", EMPTY),
        root_cause |-> Get(adj_data, "root_cause", EMPTY),
        root_cause_detail |-> Get(adj_data, "root_cause_detail", EMPTY)]

RECURSIVE calibration_rows_of(_, _, _)
calibration_rows_of(d, adj, i) ==
    IF i > Len(d.disagreements) THEN <<>>
    ELSE LET metric_key == d.disagreements[i]
         IN (IF metric_key = "preference" \/ EndsWith(metric_key, "_a")
                                           \/ EndsWith(metric_key, "_b")
             THEN <<calibration_row(d, adj, metric_key)>> ELSE <<>>)
            \o calibration_rows_of(d, adj, i + 1)

\* line 149: adj and adj.get('completed')
exports_query(prog, qk) ==
    Get(prog, qk, EmptyDict) # EmptyDict /\ Get(prog[qk], "completed", FALSE)

RECURSIVE export_calibration_data(_, _, _)
export_calibration_data(prog, disagreements, i) ==
    IF i > Len(disagreements) THEN <<>>
    ELSE LET d == disagreements[i]
         IN (IF exports_query(prog, d.query_key)
             THEN calibration_rows_of(d, prog[d.query_key], 1) ELSE <<>>)
            \o export_calibration_data(prog, disagreements, i + 1)

\* st.session_state.group / selected_query_key when they are None
NoGroup == "None"
NoKey   == "None"

PREFERENCE_OPTIONS == {MODEL_A, MODEL_B}
\* METRIC_OPTIONS: the two options of a metric, whatever the metric
METRIC_OPTIONS == {NO, YES}

RatingOptions(metric_key) ==
    IF metric_key = "preference" THEN PREFERENCE_OPTIONS ELSE METRIC_OPTIONS

\* what the text area may hold when Submit is clicked
FindingsInputs == {EMPTY, <<SP>>, TXT}
\* the root causes the model's user picks from: the placeholder and one cause
RootCauseInputs == {ROOT_CAUSE_OPTIONS[1], ROOT_CAUSE_OPTIONS[2]}

\* the adjudication_data dictionaries the form of a query can produce
Forms(query) ==
    LET keys == Range(query.disagreements)
        entries(mk) == {Entry(r, f, c) : r \in RatingOptions(mk) \cup {None},
                                         f \in FindingsInputs, c \in RootCauseInputs}
    IN {form \in [keys -> UNION {entries(mk) : mk \in keys}] :
           \A mk \in keys : form[mk] \in entries(mk)}

\* the three lists of lines 707-717
missing_rating(adjudication_data) ==
    {mk \in DOMAIN adjudication_data : adjudication_data[mk].rating = None}
missing_findings_nostrip(adjudication_data) ==
    {mk \in DOMAIN adjudication_data : adjudication_data[mk].findings = EMPTY}
missing_findings(adjudication_data) ==
    {mk \in DOMAIN adjudication_data : strip(adjudication_data[mk].findings) = EMPTY}
missing_root_cause(adjudication_data) ==
    {mk \in DOMAIN adjudication_data :
        adjudication_data[mk].root_cause = "Select root cause..."}

\* the else branch of line 725 is taken
submit_accepted(adjudication_data) ==
    /\ missing_rating(adjudication_data) = {}
    /\ missing_findings(adjudication_data) = {}
    /\ missing_root_cause(adjudication_data) = {}

\* submit_adjudication_to_sheets, by what the POST does: it answers 200,
\* answers another status, or raises (timeout, connection error).
\* raised: an exception leaves the function; ok: the value returned.
PushOutcomes == {"200", "500", "exception"}
\* posts: the times requests.post was called (line 154, outside any loop).
submit_adjudication_to_sheets_raising(outcome) ==
    [raised |-> outcome = "exception", ok |-> outcome = "200", posts |-> 1]
submit_adjudication_to_sheets_retrying(outcome) ==
    [raised |-> FALSE, ok |-> outcome = "200", posts |-> IF outcome = "200" THEN 1 ELSE 2]
submit_adjudication_to_sheets(outcome) ==
    [raised |-> FALSE, ok |-> outcome = "200", posts |-> 1]

\* get_severity_class: the CSS class of the badge of a queue card
get_severity_class_low_to_2(n) ==
    IF n <= 2 THEN "severity-low" ELSE IF n <= 3 THEN "severity-medium" ELSE "severity-high"
get_severity_class_strict(n) ==
    IF n < 1 THEN "severity-low" ELSE IF n < 3 THEN "severity-medium" ELSE "severity-high"
get_severity_class(n) ==
    IF n <= 1 THEN "severity-low" ELSE IF n <= 3 THEN "severity-medium" ELSE "severity-high"

get_group_disagreements_all(g) == DisagreementsFile
get_group_disagreements(g) == SelectSeq(DisagreementsFile, LAMBDA d : d.group = g)

\* get_query_by_key: the position of the first query with that key, 0 for None
get_query_by_key(query_key) ==
    IF \E i \in DOMAIN DisagreementsFile : DisagreementsFile[i].query_key = query_key
    THEN CHOOSE i \in DOMAIN DisagreementsFile :
            /\ DisagreementsFile[i].query_key = query_key
            /\ \A j \in 1..(i - 1) : DisagreementsFile[j].query_key # query_key
    ELSE 0

\* a variant that takes the first other query of the group, completed or not
next_query_first(prog, g, query_key) ==
    LET gq == get_group_disagreements(g)
        ok(i) == gq[i].query_key # query_key
    IN IF \E i \in DOMAIN gq : ok(i)
       THEN gq[CHOOSE i \in DOMAIN gq : ok(i) /\ \A j \in 1..(i - 1) : ~ok(j)].query_key
       ELSE NoKey

\* lines 737-744: the key of the first query of the group that is not
\* completed and is not the one just submitted, NoKey when there is none
next_query(prog, g, query_key) ==
    LET gq == get_group_disagreements(g)
        ok(i) == ~is_completed(prog, gq[i].query_key) /\ gq[i].query_key # query_key
    IN IF \E i \in DOMAIN gq : ok(i)
       THEN gq[CHOOSE i \in DOMAIN gq : ok(i) /\ \A j \in 1..(i - 1) : ~ok(j)].query_key
       ELSE NoKey

---------------------------------------------------------------------------
(* evaluation_storage.py: the store of the primary evaluation tool *)

\* Of the six metrics of a model the store's record keeps the first, source:
\* the code treats the six alike (any() over the six scores, any() over the
\* six comments).  A score is NO or YES (the two radio options), comments,
\* preference and reasons are text; the keys' parts are TLA+ strings.

\* the record of a key the store does not hold (lines 49-57, 67-75)
DefaultStatus ==
    [started |-> FALSE, model_a_graded |-> FALSE, model_b_graded |-> FALSE,
     comparison_done |-> FALSE, model_a_data |-> EmptyDict,
     model_b_data |-> EmptyDict, comparison_data |-> EmptyDict]

\* f"{evaluator}_{patient_id}_{query_num}"
eval_key(evaluator, patient_id, query_num) ==
    evaluator \o "_" \o patient_id \o "_" \o query_num

get_evaluation_status(evals, evaluator, patient_id, query_num) ==
    Get(evals, eval_key(evaluator, patient_id, query_num), DefaultStatus)

\* dict.update: the fields of status_updates replace those of the record
update_evaluation_status(evals, evaluator, patient_id, query_num, status_updates) ==
    LET key == eval_key(evaluator, patient_id, query_num)
        rec == Get(evals, key, DefaultStatus)
    IN SetKey(evals, key,
              [f \in DOMAIN rec \cup DOMAIN status_updates |->
                  IF f \in DOMAIN status_updates THEN status_updates[f] ELSE rec[f]])

\* lines 127-135 on the query numbers of the model: "1" -> "1.0"; a text
\* float() rejects is kept as it is
normalize_query_num(query_num_raw) ==
    CASE query_num_raw = "1" -> "1.0"
      [] query_num_raw = "2" -> "2.0"
      [] OTHER -> query_num_raw

\* lines 122-251 for one submission
rebuild_submission(evals, submission) ==
    LET evaluator == Get(submission, "evaluator", "")
        patient_id == Get(submission, "patientId", "")
        query_num == normalize_query_num(Get(submission, "queryNum", ""))
        key == eval_key(evaluator, patient_id, query_num)
        model_a_data == [source_yes_no |-> strip(Get(submission, "a_source", EMPTY)),
                         source_explain |-> Get(submission, "a_source_f", EMPTY)]
        model_b_data == [source_yes_no |-> strip(Get(submission, "b_source", EMPTY)),
                         source_explain |-> Get(submission, "b_source_f", EMPTY)]
        comparison_data == [preference |-> Get(submission, "preference", EMPTY),
                            preference_reasons |-> Get(submission, "pref_reasons", EMPTY)]
        has_model_a_scores == strip(Get(submission, "a_source", EMPTY)) # EMPTY
        has_model_a_data == \/ has_model_a_scores
                            \/ strip(Get(submission, "a_source_f", EMPTY)) # EMPTY
        has_model_b_scores == strip(Get(submission, "b_source", EMPTY)) # EMPTY
        has_model_b_data == \/ has_model_b_scores
                            \/ strip(Get(submission, "b_source_f", EMPTY)) # EMPTY
        has_preference == strip(Get(submission, "preference", EMPTY)) # EMPTY
        has_any_data == has_model_a_data \/ has_model_b_data \/ has_preference
    IN IF evaluator = "" \/ patient_id = "" \/ query_num = "" THEN evals
       ELSE IF key \notin DOMAIN evals
       THEN SetKey(evals, key,
                [started |-> has_any_data,
                 model_a_graded |-> has_model_a_scores,
                 model_b_graded |-> has_model_b_scores,
                 comparison_done |-> has_preference,
                 model_a_data |-> IF has_model_a_data THEN model_a_data ELSE EmptyDict,
                 model_b_data |-> IF has_model_b_data THEN model_b_data ELSE EmptyDict,
                 comparison_data |-> IF has_preference THEN comparison_data ELSE EmptyDict])
       ELSE LET existing == evals[key]
            IN SetKey(evals, key,
                [existing EXCEPT
                   !.started = has_any_data \/ existing.started,
                   !.model_a_graded = has_model_a_scores \/ existing.model_a_graded,
                   !.model_b_graded = has_model_b_scores \/ existing.model_b_graded,
                   !.comparison_done = has_preference \/ existing.comparison_done,
                   !.model_a_data = IF has_model_a_data THEN model_a_data ELSE @,
                   !.model_b_data = IF has_model_b_data THEN model_b_data ELSE @,
                   !.comparison_data = IF has_preference THEN comparison_data ELSE @])

\* the evaluations.json rebuild_progress_from_submissions leaves
RECURSIVE rebuild_progress_from_submissions(_, _)
rebuild_progress_from_submissions(evals, submitted_data) ==
    IF submitted_data = <<>> THEN evals
    ELSE rebuild_progress_from_submissions(
             rebuild_submission(evals, Head(submitted_data)), Tail(submitted_data))

\* recover_progress.py, lines 66-98: the rows of the CSV export that carry a
\* patient, a query and an evaluator become submissions of three fields
csv_submissions(rows) ==
    LET keep(row) == /\ row.patient_id \notin {"", "nan"}
                     /\ row.query_num \notin {"", "nan"}
                     /\ row.evaluator \notin {"", "nan", "Evaluator #"}
        kept == SelectSeq(rows, keep)
    IN [i \in DOMAIN kept |->
           [evaluator |-> kept[i].evaluator, patientId |-> kept[i].patient_id,
            queryNum |-> kept[i].query_num]]

recover_progress(evals, rows) ==
    IF csv_submissions(rows) # <<>>
    THEN rebuild_progress_from_submissions(evals, csv_submissions(rows))
    ELSE evals

---------------------------------------------------------------------------
(* app.py: the evaluator's session of the primary tool, the admin's Reset
   and the recoveries *)

\* st.session_state.assignments[evaluator] of one evaluator of group B, where
\* every row has a patient id of its own and base_patient_id is the id of the
\* first row of the patient's block (data_loader.py, lines 163-174)
TheEvaluator == "Evaluator 3"
Assignments ==
    <<[patient_id |-> "P2", base_patient_id |-> "P2", query_num |-> "1.0"],
      [patient_id |-> "P3", base_patient_id |-> "P2", query_num |-> "2.0"]>>

\* what the Model A / Model B form may hold when Next is clicked
ModelForms == {[source_yes_no |-> NO, source_explain |-> EMPTY],
               [source_yes_no |-> YES, source_explain |-> TXT]}
\* what the comparison form may hold when Submit is clicked
ComparisonForms ==
    {[preference |-> pref, preference_reasons |-> r] :
        pref \in {MODEL_A, MODEL_B}, r \in {<<SP>>, TXT}}

\* what the GET endpoint of the sheet may answer: full submissions
FullSubmission(patient_id, query_num, score, pref) ==
    [evaluator |-> TheEvaluator, patientId |-> patient_id, queryNum |-> query_num,
     a_source |-> score, a_source_f |-> EMPTY, b_source |-> score, b_source_f |-> TXT,
     preference |-> pref, pref_reasons |-> TXT]
SheetSubmissions ==
    {<<FullSubmission("P2", "1", YES, MODEL_B)>>,
     <<FullSubmission("P2", "1.0", NO, MODEL_A), FullSubmission("P3", "2", EMPTY, MODEL_A)>>,
     <<[evaluator |-> TheEvaluator, patientId |-> "P3", queryNum |-> "",
        preference |-> MODEL_A]>>}

\* the rows of submissions_export.csv: patient, query and evaluator columns
CsvExports ==
    {<<[patient_id |-> "P2", query_num |-> "1", evaluator |-> TheEvaluator]>>,
     <<[patient_id |-> "P2", query_num |-> "1.0", evaluator |-> TheEvaluator],
       [patient_id |-> "P3", query_num |-> "2", evaluator |-> TheEvaluator],
       [patient_id |-> "nan", query_num |-> "1", evaluator |-> "Evaluator #"]>>}

NoQuery == 0

EvalInit ==
    /\ evaluations = EmptyDict
    /\ app = [screen |-> 0, evaluator |-> NoGroup, selected_query |-> NoQuery,
              login_error |-> FALSE, pref_error |-> FALSE]
    /\ recovery = "idle"

\* the screen a query is opened on (lines 773-780, 1340-1347)
screen_for(status) ==
    IF ~status.model_a_graded THEN 3 ELSE IF ~status.model_b_graded THEN 4 ELSE 5

\* get_all_evaluator_queries: the status shown for assignment i
assignment_status(evals, i) ==
    Get(evals, eval_key(app.evaluator, Assignments[i].patient_id, Assignments[i].query_num),
        DefaultStatus)

\* the key the Select button marks as started: patient_id is the base
\* patient of the block (line 688)
select_patient(i) == Assignments[i].base_patient_id

\* Continue on the welcome screen
Continue ==
    /\ app.screen = 0
    /\ app' = [app EXCEPT !.screen = 1]
    /\ UNCHANGED <<evaluations, recovery>>
    /\ UNCHANGED <<prepVars, storeVars, mergeVars, sessVars, fileVars>>

\* Login on screen 1 with the evaluator's password, or with a wrong one
EvaluatorLogin ==
    /\ app.screen = 1
    /\ \/ app' = [app EXCEPT !.screen = 2, !.evaluator = TheEvaluator, !.login_error = FALSE]
       \/ app' = [app EXCEPT !.login_error = TRUE]
    /\ UNCHANGED <<evaluations, recovery>>
    /\ UNCHANGED <<prepVars, storeVars, mergeVars, sessVars, fileVars>>

\* Sign Out on the Query List
SignOut ==
    /\ app.screen = 2
    /\ app' = [app EXCEPT !.screen = 1, !.selected_query = NoQuery]
    /\ UNCHANGED <<evaluations, recovery>>
    /\ UNCHANGED <<prepVars, storeVars, mergeVars, sessVars, fileVars>>

\* Select on a query of the Query List (lines 764-781)
Select ==
    /\ app.screen = 2
    /\ \E i \in DOMAIN Assignments :
          LET status == assignment_status(evaluations, i)
          IN /\ evaluations' =
                   IF ~status.started
                   THEN update_evaluation_status(evaluations, app.evaluator,
                            select_patient(i), Assignments[i].query_num,
                            [started |-> TRUE])
                   ELSE evaluations
             /\ app' = [app EXCEPT !.selected_query = i, !.screen = screen_for(status)]
    /\ UNCHANGED recovery
    /\ UNCHANGED <<prepVars, storeVars, mergeVars, sessVars, fileVars>>

\* Next on the Model A (3) or Model B (4) screen (lines 1035-1068)
SaveModel ==
    /\ app.screen \in {3, 4}
    /\ app.selected_query # NoQuery
    /\ \E model_data \in ModelForms :
          evaluations' =
              update_evaluation_status(evaluations, app.evaluator,
                  Assignments[app.selected_query].patient_id,
                  Assignments[app.selected_query].query_num,
                  IF app.screen = 3
                  THEN [model_a_graded |-> TRUE, model_a_data |-> model_data]
                  ELSE [model_b_graded |-> TRUE, model_b_data |-> model_data])
    /\ app' = [app EXCEPT !.screen = IF app.screen = 3 THEN 4 ELSE 5]
    /\ UNCHANGED recovery
    /\ UNCHANGED <<prepVars, storeVars, mergeVars, sessVars, fileVars>>

\* Back on Model A, Model B or the comparison (lines 1025-1032, 1185-1189)
Back ==
    /\ app.screen \in {3, 4, 5}
    /\ app' = [app EXCEPT !.screen = app.screen - 1, !.pref_error = FALSE]
    /\ UNCHANGED <<evaluations, recovery>>
    /\ UNCHANGED <<prepVars, storeVars, mergeVars, sessVars, fileVars>>

\* Query List on Model A, Model B or the comparison (lines 917-920, 1108-1111)
QueryList ==
    /\ app.screen \in {3, 4, 5}
    /\ app' = [app EXCEPT !.screen = 2]
    /\ UNCHANGED <<evaluations, recovery>>
    /\ UNCHANGED <<prepVars, storeVars, mergeVars, sessVars, fileVars>>

\* Submit & Next Query on the comparison screen (lines 1191-1354)
SubmitComparison ==
    /\ app.screen = 5
    /\ app.selected_query # NoQuery
    /\ \E form \in ComparisonForms :
          IF strip(form.preference_reasons) = EMPTY
          THEN /\ app' = [app EXCEPT !.pref_error = TRUE]
               /\ UNCHANGED evaluations
          ELSE LET q == Assignments[app.selected_query]
                   after == update_evaluation_status(evaluations, app.evaluator,
                                q.patient_id, q.query_num,
                                [comparison_done |-> TRUE, comparison_data |-> form])
                   next == app.selected_query + 1
               IN /\ evaluations' = after
                  /\ IF next <= Len(Assignments)
                     THEN app' = [app EXCEPT
                              !.pref_error = FALSE, !.selected_query = next,
                              !.screen = screen_for(
                                  Get(after, eval_key(app.evaluator, Assignments[next].patient_id,
                                                      Assignments[next].query_num),
                                      DefaultStatus))]
                     ELSE app' = [app EXCEPT !.pref_error = FALSE, !.screen = 2,
                                             !.selected_query = NoQuery]
    /\ UNCHANGED recovery
    /\ UNCHANGED <<prepVars, storeVars, mergeVars, sessVars, fileVars>>

\* Reset All Progress on the admin dashboard of another session
\* (lines 512-519): reset_all_evaluations writes {}
ResetAll ==
    /\ evaluations # EmptyDict
    /\ evaluations' = EmptyDict
    /\ UNCHANGED <<app, recovery>>
    /\ UNCHANGED <<prepVars, storeVars, mergeVars, sessVars, fileVars>>

\* load_data of a session that starts (lines 163-183): the store is empty,
\* so the GET is sent
StartPull ==
    /\ recovery = "idle"
    /\ evaluations = EmptyDict
    /\ recovery' = "pulling"
    /\ UNCHANGED <<evaluations, app>>
    /\ UNCHANGED <<prepVars, storeVars, mergeVars, sessVars, fileVars>>

\* the GET has answered with a list: rebuild_progress_from_submissions loads
\* the store as it is now
FinishPull ==
    /\ recovery = "pulling"
    /\ \E submissions \in SheetSubmissions :
          evaluations' = rebuild_progress_from_submissions(evaluations, submissions)
    /\ recovery' = "idle"
    /\ UNCHANGED app
    /\ UNCHANGED <<prepVars, storeVars, mergeVars, sessVars, fileVars>>

\* python recover_progress.py on an export of the sheet
RunRecoveryScript ==
    /\ \E rows \in CsvExports : evaluations' = recover_progress(evaluations, rows)
    /\ UNCHANGED <<app, recovery>>
    /\ UNCHANGED <<prepVars, storeVars, mergeVars, sessVars, fileVars>>

---------------------------------------------------------------------------
(* adjudication_app.py: the session *)

NoPending == EmptyDict
\* the GET counter stops at MaxPulls
MaxPulls == 2
\* the last click on Submit Adjudication: whether the form it carried lacked
\* a rating, had blank findings or the placeholder root cause, and whether
\* the handler refused it.  Any other interaction reruns the script and
\* clears it.
NoClick == [clicked |-> FALSE, incomplete |-> FALSE, rejected |-> FALSE,
            outcome |-> "none", posts |-> 0, get |-> "none"]

\* the browser sessions whose save_adjudication calls are followed step by step
Sessions == {"s1", "s2"}
NoCall == [pc |-> "idle", query_key |-> NoKey, adjudication_data |-> EmptyDict,
           progress |-> EmptyDict, blind |-> FALSE]
NoSave == [query_key |-> NoKey, blind |-> FALSE, before |-> {}]

FileInit ==
    /\ unreadable = FALSE
    /\ calls = [s \in Sessions |-> NoCall]
    /\ saved = {}
    /\ last_save = NoSave

Blank(text) == \A i \in DOMAIN text : text[i] = SP
FormIncomplete(form) ==
    \E mk \in DOMAIN form :
        \/ form[mk].rating = None
        \/ Blank(form[mk].findings)
        \/ form[mk].root_cause = ROOT_CAUSE_UNSET

SessionInit ==
    /\ screen = 0
    /\ group = NoGroup
    /\ selected_query_key = NoKey
    /\ is_admin = FALSE
    /\ login_error = FALSE
    /\ auto_recovery_attempted = FALSE
    /\ pc = "idle"
    /\ pending = NoPending
    /\ sheets_ok = FALSE
    /\ pulls = 0
    /\ observed = NoClick

\* how the GET of recover_progress_from_sheets ended
GetOutcome(response) ==
    IF response.raised THEN "exception"
    ELSE IF response.status_code # 200 THEN "status"
    ELSE IF Len(response.body) = 0 THEN "empty" ELSE "list"

\* the tests of lines 232 and 235
recovery_due_when_empty(attempted, prog) == prog = EmptyDict
recovery_due(attempted, prog) == ~attempted /\ prog = EmptyDict

\* load_disagreements(): the once-per-session recovery of lines 231-238
\* (the disagreement list itself is the constant DisagreementsFile)
load_disagreements(response) ==
    /\ auto_recovery_attempted' = TRUE
    /\ IF recovery_due(auto_recovery_attempted, progress)
       THEN LET r == recover_progress_from_sheets(progress, response)
            IN /\ progress' = r.progress /\ recovered' = r.count
               /\ pulls' = IF pulls < MaxPulls THEN pulls + 1 ELSE pulls
               /\ observed' = [NoClick EXCEPT !.get = GetOutcome(response)]
       ELSE /\ UNCHANGED <<progress, recovered, pulls>>
            /\ observed' = NoClick

\* Login with the admin password
LoginAdmin ==
    /\ screen = 0 /\ pc = "idle"
    /\ \E response \in PullResponses : load_disagreements(response)
    /\ is_admin' = TRUE
    /\ screen' = 3
    /\ UNCHANGED <<group, selected_query_key, login_error, pending, sheets_ok, pc>>
    /\ UNCHANGED <<prepVars, mergeVars, evalVars, fileVars>>

\* Login with a group and its password
LoginGroup ==
    /\ screen = 0 /\ pc = "idle"
    /\ \E g \in Groups : group' = g
    /\ login_error' = FALSE
    /\ \E response \in PullResponses : load_disagreements(response)
    /\ screen' = 1
    /\ UNCHANGED <<selected_query_key, is_admin, pending, sheets_ok, pc>>
    /\ UNCHANGED <<prepVars, mergeVars, evalVars, fileVars>>

\* Login with a group and a wrong password
LoginWrongPassword ==
    /\ screen = 0 /\ pc = "idle"
    /\ login_error' = TRUE
    /\ observed' = NoClick
    /\ UNCHANGED pulls
    /\ UNCHANGED <<screen, group, selected_query_key, is_admin,
                   auto_recovery_attempted, pending, sheets_ok, pc>>
    /\ UNCHANGED <<prepVars, storeVars, mergeVars, evalVars, fileVars>>

\* Login with "Select..." and no admin password: a warning, nothing else
LoginNoGroup ==
    /\ screen = 0 /\ pc = "idle"
    /\ observed' = NoClick
    /\ UNCHANGED pulls
    /\ UNCHANGED <<screen, group, selected_query_key, is_admin, login_error,
                   auto_recovery_attempted, pending, sheets_ok, pc>>
    /\ UNCHANGED <<prepVars, storeVars, mergeVars, evalVars, fileVars>>

\* Logout on the Queue screen
Logout ==
    /\ screen = 1 /\ pc = "idle"
    /\ screen' = 0
    /\ group' = NoGroup
    /\ observed' = NoClick
    /\ UNCHANGED pulls
    /\ UNCHANGED <<selected_query_key, is_admin, login_error,
                   auto_recovery_attempted, pending, sheets_ok, pc>>
    /\ UNCHANGED <<prepVars, storeVars, mergeVars, evalVars, fileVars>>

\* Review / Edit on a card of the Queue screen
OpenQuery ==
    /\ screen = 1 /\ pc = "idle"
    /\ \E i \in DOMAIN get_group_disagreements(group) :
          selected_query_key' = get_group_disagreements(group)[i].query_key
    /\ screen' = 2
    /\ observed' = NoClick
    /\ UNCHANGED pulls
    /\ UNCHANGED <<group, is_admin, login_error, auto_recovery_attempted,
                   pending, sheets_ok, pc>>
    /\ UNCHANGED <<prepVars, storeVars, mergeVars, evalVars, fileVars>>

\* either Back to Queue button of the Review screen
BackToQueue ==
    /\ screen = 2 /\ pc = "idle"
    /\ screen' = 1
    /\ observed' = NoClick
    /\ UNCHANGED pulls
    /\ UNCHANGED <<group, selected_query_key, is_admin, login_error,
                   auto_recovery_attempted, pending, sheets_ok, pc>>
    /\ UNCHANGED <<prepVars, storeVars, mergeVars, evalVars, fileVars>>

\* Submit Adjudication, up to the POST: validation, then save_adjudication
SubmitAdjudication ==
    /\ screen = 2 /\ pc = "idle"
    /\ get_query_by_key(selected_query_key) # 0
    /\ \E form \in Forms(DisagreementsFile[get_query_by_key(selected_query_key)]) :
          IF submit_accepted(form)
          THEN /\ progress' = save_adjudication(progress, selected_query_key, form)
               /\ pending' = form
               /\ pc' = "pushing"
               /\ observed' = [clicked |-> TRUE, incomplete |-> FormIncomplete(form),
                               rejected |-> FALSE, outcome |-> "none", posts |-> 0, get |-> "none"]
          ELSE /\ observed' = [clicked |-> TRUE, incomplete |-> FormIncomplete(form),
                               rejected |-> TRUE, outcome |-> "none", posts |-> 0, get |-> "none"]
               /\ UNCHANGED <<progress, pending, pc>>
    /\ UNCHANGED <<screen, group, selected_query_key, is_admin, login_error,
                   auto_recovery_attempted, sheets_ok, recovered>>
    /\ UNCHANGED pulls
    /\ UNCHANGED <<prepVars, mergeVars, evalVars, fileVars>>

\* the rest of the Submit handler: the POST returns, then lines 732-751
PushDone ==
    /\ pc = "pushing"
    /\ \E outcome \in PushOutcomes :
          LET r == submit_adjudication_to_sheets(outcome)
              next == next_query(progress, group, selected_query_key)
          IN /\ observed' = [NoClick EXCEPT !.outcome = outcome, !.posts = r.posts]
             /\ IF r.raised
                THEN UNCHANGED <<sheets_ok, selected_query_key, screen>>
                ELSE /\ sheets_ok' = r.ok
                     /\ IF next # NoKey
                        THEN selected_query_key' = next /\ screen' = screen
                        ELSE screen' = 1 /\ selected_query_key' = selected_query_key
    /\ pc' = "idle"
    /\ pending' = NoPending
    /\ UNCHANGED <<group, is_admin, login_error, auto_recovery_attempted>>
    /\ UNCHANGED pulls
    /\ UNCHANGED <<prepVars, storeVars, mergeVars, evalVars, fileVars>>

\* a rerun of the Dashboard screen: load_disagreements() again
DashboardRender ==
    /\ screen = 3 /\ pc = "idle"
    /\ \E response \in PullResponses : load_disagreements(response)
    /\ UNCHANGED <<screen, group, selected_query_key, is_admin, login_error,
                   pending, sheets_ok, pc>>
    /\ UNCHANGED <<prepVars, mergeVars, evalVars, fileVars>>

\* Logout on the Dashboard
AdminLogout ==
    /\ screen = 3 /\ pc = "idle"
    /\ screen' = 0
    /\ is_admin' = FALSE
    /\ observed' = NoClick
    /\ UNCHANGED pulls
    /\ UNCHANGED <<group, selected_query_key, login_error,
                   auto_recovery_attempted, pending, sheets_ok, pc>>
    /\ UNCHANGED <<prepVars, storeVars, mergeVars, evalVars, fileVars>>

\* a new browser session: the session state starts over, the store stays
NewSession ==
    /\ pc = "idle"
    /\ screen' = 0
    /\ group' = NoGroup
    /\ selected_query_key' = NoKey
    /\ is_admin' = FALSE
    /\ login_error' = FALSE
    /\ auto_recovery_attempted' = FALSE
    /\ pending' = NoPending
    /\ sheets_ok' = FALSE
    /\ pulls' = 0
    /\ observed' = NoClick
    /\ UNCHANGED pc
    /\ UNCHANGED <<prepVars, storeVars, mergeVars, evalVars, fileVars>>

\* The partition files were prepared beforehand: the session and the store
\* read them as DisagreementsFile and AgreedFile.
Init ==
    /\ export = NoExport
    /\ prep = NotPrepared
    /\ progress = EmptyDict
    /\ recovered = 0
    /\ merged = NotMerged
    /\ SessionInit
    /\ FileInit
    /\ EvalInit

Next ==
    \/ LoginAdmin
    \/ LoginGroup
    \/ LoginWrongPassword
    \/ LoginNoGroup
    \/ Logout
    \/ OpenQuery
    \/ BackToQueue
    \/ SubmitAdjudication
    \/ PushDone
    \/ DashboardRender
    \/ AdminLogout
    \/ NewSession

Spec == Init /\ [][Next]_vars

\* A group's adjudicator who logs in, opens queries and submits, and, once on
\* the Review screen, goes on submitting complete forms: the fifth
\* specification.  The POST always returns (timeout=10, line 154).
AcceptedSubmit == SubmitAdjudication /\ pc' = "pushing"

NextReviewing ==
    \/ LoginGroup
    \/ OpenQuery
    \/ SubmitAdjudication
    \/ PushDone

SpecReviewing ==
    Init /\ [][NextReviewing]_vars /\ WF_vars(AcceptedSubmit) /\ WF_vars(PushDone)

---------------------------------------------------------------------------
(* The store as the sessions and the scripts use it: the third specification.
   Several browser sessions share adjudication_progress.json, so a save of
   one session may come between the emptiness test of another session's
   load_disagreements and its rebuild.  merge_final_dataset.py is run when the
   adjudication is over: the model follows the store up to the merge. *)

\* a Submit of some session that passed validation: save_adjudication
SaveAdjudication ==
    /\ merged.status = "none"
    /\ \E i \in DOMAIN DisagreementsFile :
          \E form \in Forms(DisagreementsFile[i]) :
              /\ submit_accepted(form)
              /\ progress' = save_adjudication(progress, DisagreementsFile[i].query_key, form)
    /\ UNCHANGED <<recovered, prepVars, mergeVars, evalVars, fileVars, sessVars>>

\* rebuild_progress_from_sheets(submissions) on the snapshot as it is now
Rebuild ==
    /\ merged.status = "none"
    /\ \E submissions \in RemoteLists :
          LET r == rebuild_progress_from_sheets(progress, submissions)
          IN progress' = r.progress /\ recovered' = r.count
    /\ UNCHANGED <<prepVars, mergeVars, evalVars, fileVars, sessVars>>

\* merge_final_dataset.py
Merge ==
    /\ merged' = merge(AgreedFile, DisagreementsFile, progress)
    /\ UNCHANGED <<prepVars, storeVars, sessVars, fileVars, evalVars>>

NextStore ==
    \/ SaveAdjudication
    \/ Rebuild
    \/ Merge

SpecStore == Init /\ [][NextStore]_vars

---------------------------------------------------------------------------
(* save_adjudication step by step: the fourth specification.  Each browser
   session runs its script in a thread of its own; save_adjudication reads
   the whole snapshot (load_progress), sets one key in its local copy and
   writes the whole copy back (save_progress), and nothing orders the reads
   and writes of two sessions.  A write that is cut short leaves a file that
   json.load rejects. *)

\* one accepted form for each disagreed query
AcceptedForm(qk) ==
    LET q == DisagreementsFile[get_query_by_key(qk)]
    IN [mk \in Range(q.disagreements) |->
           Entry(CHOOSE r \in RatingOptions(mk) : TRUE, TXT, ROOT_CAUSE_OPTIONS[2])]

\* line 53: progress = load_progress()
BeginSave(s) ==
    /\ calls[s].pc = "idle"
    /\ \E qk \in QueryKeys :
          calls' = [calls EXCEPT ![s] =
                       [pc |-> "loaded", query_key |-> qk,
                        adjudication_data |-> AcceptedForm(qk),
                        progress |-> load_progress(progress, unreadable),
                        blind |-> unreadable]]
    /\ UNCHANGED <<unreadable, saved, last_save>>
    /\ UNCHANGED <<prepVars, storeVars, mergeVars, evalVars, sessVars>>

\* lines 54-59: progress[query_key] = {...}; save_progress(progress)
EndSave(s) ==
    /\ calls[s].pc = "loaded"
    /\ progress' = save_adjudication(calls[s].progress, calls[s].query_key,
                                     calls[s].adjudication_data)
    /\ unreadable' = FALSE
    /\ saved' = saved \cup {calls[s].query_key}
    /\ last_save' = [query_key |-> calls[s].query_key, blind |-> calls[s].blind,
                     before |-> DOMAIN progress]
    /\ calls' = [calls EXCEPT ![s] = NoCall]
    /\ UNCHANGED <<recovered, prepVars, mergeVars, evalVars, sessVars>>

\* the file is left truncated or otherwise not parseable
Corrupt ==
    /\ ~unreadable
    /\ progress # EmptyDict
    /\ unreadable' = TRUE
    /\ saved' = {}
    /\ UNCHANGED <<calls, last_save>>
    /\ UNCHANGED <<prepVars, storeVars, mergeVars, evalVars, sessVars>>

NextFile ==
    \/ \E s \in Sessions : BeginSave(s)
    \/ \E s \in Sessions : EndSave(s)
    \/ Corrupt

SpecFile == Init /\ [][NextFile]_vars

---------------------------------------------------------------------------
(* The primary evaluation tool: the sixth specification.  One evaluator's
   session, the admin's Reset All Progress in another session, the automatic
   recovery of a session that starts, and the recovery script all work on
   evaluations.json. *)

NextEval ==
    \/ Continue
    \/ EvaluatorLogin
    \/ SignOut
    \/ Select
    \/ SaveModel
    \/ Back
    \/ QueryList
    \/ SubmitComparison
    \/ ResetAll
    \/ StartPull
    \/ FinishPull
    \/ RunRecoveryScript

SpecEval == Init /\ [][NextEval]_vars

---------------------------------------------------------------------------
(* prepare_adjudication.py run on an export: the second specification *)

\* main(): prepare_adjudication_data(csv_path) on the export just read
Prepare ==
    /\ prep.status = "none"
    /\ prep' = prepare_adjudication_data(export)
    /\ UNCHANGED <<export, storeVars, mergeVars, evalVars, fileVars, sessVars>>

InitPrepare ==
    /\ \E c1 \in VariedCells, r2 \in SecondRows, extra \in ExtraRows, cols \in ColumnSets :
          export = ExportOf(c1, r2, extra, cols)
    /\ prep = NotPrepared
    /\ progress = EmptyDict
    /\ recovered = 0
    /\ merged = NotMerged
    /\ SessionInit
    /\ FileInit
    /\ EvalInit

NextPrepare == Prepare

SpecPrepare == InitPrepare /\ [][NextPrepare]_vars

---------------------------------------------------------------------------
(* Properties of the prepared partition *)

\* the query records of both lists
PreparedRecords == Range(prep.disagreements) \cup Range(prep.agreed)

\* a cell's text with the blanks at both ends removed; a missing cell
\* (NaN, or a column the export does not have) reads as the empty string
Trimmed(row, col) ==
    IF col \notin DOMAIN row.cells THEN EMPTY
    ELSE LET s == row.cells[col]
             inked == {i \in DOMAIN s : s[i] # SP}
         IN IF s = NaN \/ inked = {} THEN EMPTY
            ELSE SubSeq(s, CHOOSE i \in inked : \A j \in inked : i <= j,
                           CHOOSE i \in inked : \A j \in inked : j <= i)

\* the export row evaluator number k of the record's group gave for its query
RawRow(rec, k) ==
    CHOOSE r \in export.rows :
        /\ r.group = rec.group /\ r.evaluator = EVALUATOR_PAIRS[rec.group][k]
        /\ r.patient = rec.patient_id /\ r.query = rec.query_num

\* the metric keys on which the two raw rows of a record differ once trimmed
RawDifferences(rec, first, second) ==
    {b \o "_a" : b \in {m \in MetricBases :
        Trimmed(RawRow(rec, first), METRIC_COLS_A[m][1])
            # Trimmed(RawRow(rec, second), METRIC_COLS_A[m][1])}}
    \cup {b \o "_b" : b \in {m \in MetricBases :
        Trimmed(RawRow(rec, first), METRIC_COLS_B[m][1])
            # Trimmed(RawRow(rec, second), METRIC_COLS_B[m][1])}}
    \cup (IF Trimmed(RawRow(rec, first), "Model Preference")
                # Trimmed(RawRow(rec, second), "Model Preference")
          THEN {"preference"} ELSE {})

\* C7: for every query record built, the disagreement set is exactly the
\* set of metric keys (and "preference") on which the two evaluators'
\* trimmed rating strings differ; findings text plays no part, the set is
\* the same with the evaluators exchanged, and it is empty when all the
\* ratings are equal.
C7_DisagreementsAreRatingDifferences ==
    prep.status = "ok" =>
        \A rec \in PreparedRecords :
            /\ Range(rec.disagreements) = RawDifferences(rec, 1, 2)
            /\ Range(rec.disagreements) = RawDifferences(rec, 2, 1)
            /\ Range(compare_ratings(rec.evaluator_2.model_a, rec.evaluator_1.model_a))
                 = Range(compare_ratings(rec.evaluator_1.model_a, rec.evaluator_2.model_a))
            /\ compare_ratings(rec.evaluator_1.model_a, rec.evaluator_1.model_a) = <<>>
            /\ Len(rec.disagreements) = Cardinality(Range(rec.disagreements))

\* a record whose evaluators wrote different findings and ratings that
\* differ only by surrounding blanks, beside a preference that differs
C7_Witness ==
    /\ prep.status = "ok"
    /\ \E rec \in PreparedRecords :
          /\ RawRow(rec, 1).cells["Hallucination - Fabrication"] = YES
          /\ RawRow(rec, 2).cells["Hallucination - Fabrication"] = <<SP, "Y", SP>>
          /\ rec.evaluator_1.model_a["hallucination_findings"]
               # rec.evaluator_2.model_a["hallucination_findings"]
          /\ rec.disagreements = <<"preference">>

\* the (patient, query) pairs the export has rows for
ExportQueries == {<<r.patient, r.query>> : r \in export.rows}
KeysOf(seq) == {seq[i].query_key : i \in DOMAIN seq}

\* C8 as stated: every (patient, query) of the export has its key in the
\* disagreed list or in the agreed list, and never in both.
C8_EveryExportQueryInOnePartition ==
    prep.status = "ok" =>
        \A idx \in ExportQueries :
            LET key == query_key_of(idx[1], idx[2])
            IN (key \in KeysOf(prep.disagreements)) # (key \in KeysOf(prep.agreed))

\* the positions of a list holding the record of one group's query
PositionsOf(seq, g, idx) ==
    {i \in DOMAIN seq : seq[i].group = g /\ <<seq[i].patient_id, seq[i].query_num>> = idx}

\* whether both evaluators of the group's pair have a row for the query
RatedByBoth(g, idx) ==
    \A k \in 1..2 :
        \E r \in export.rows :
            r.group = g /\ r.evaluator = EVALUATOR_PAIRS[g][k] /\ <<r.patient, r.query>> = idx

\* C8: every query of a group that both evaluators of the group's pair
\* rated has exactly one record, in the disagreed list when its disagreement
\* set is non-empty and in the agreed list otherwise; a query rated by one
\* evaluator of the pair only has no record in either list.
C8_EveryPairedQueryInOnePartition ==
    prep.status = "ok" =>
        \A g \in Groups, idx \in Range(IndexOrder) :
            LET d == PositionsOf(prep.disagreements, g, idx)
                a == PositionsOf(prep.agreed, g, idx)
            IN /\ Cardinality(d) + Cardinality(a) = (IF RatedByBoth(g, idx) THEN 1 ELSE 0)
               /\ \A i \in d : prep.disagreements[i].disagreements # <<>>
               /\ \A i \in a : prep.agreed[i].disagreements = <<>>

\* one query in each list, and one rated by evaluator 1 only in neither
C8_Witness ==
    /\ prep.status = "ok"
    /\ PositionsOf(prep.disagreements, "A", <<"P2", 1>>) # {}
    /\ PositionsOf(prep.agreed, "A", <<"P1", 1>>) # {}
    /\ \E r \in export.rows : r.group = "A" /\ <<r.patient, r.query>> = <<"P1", MaxQueryNum>>
    /\ ~RatedByBoth("A", <<"P1", MaxQueryNum>>)

\* C9: no two query records of the two lists share a query_key.
C9_QueryKeyUnique ==
    prep.status = "ok" =>
        /\ \A i, j \in DOMAIN prep.disagreements :
              prep.disagreements[i].query_key = prep.disagreements[j].query_key => i = j
        /\ \A i, j \in DOMAIN prep.agreed :
              prep.agreed[i].query_key = prep.agreed[j].query_key => i = j
        /\ KeysOf(prep.disagreements) \cap KeysOf(prep.agreed) = {}

\* C10: an export that lacks an expected column is never turned into query
\* records; the run ends with an error.
C10_MissingColumnAborts ==
    (prep.status # "none" /\ ~(ExpectedColumns \subseteq export.columns))
        => prep.status = "error"

---------------------------------------------------------------------------
(* Properties of the progress store, the Review screen and the merge *)

\* an entry of a record that carries everything an adjudication must carry
EntryIsComplete(rec, mk) ==
    /\ mk \in DOMAIN rec
    /\ {"rating", "findings", "root_cause"} \subseteq DOMAIN rec[mk]
    /\ rec[mk].rating \notin {EMPTY, None}
    /\ rec[mk].findings # EMPTY
    /\ rec[mk].root_cause # "Select root cause..."

\* C1: every record of the store with completed = true has, for every
\* metric key of its query's disagreements, a non-empty rating, non-empty
\* findings and a root cause other than the placeholder.
C1_CompletedRecordsAreComplete ==
    \A i \in DOMAIN DisagreementsFile :
        LET q == DisagreementsFile[i]
        IN is_completed(progress, q.query_key) =>
              \A mk \in Range(q.disagreements) : EntryIsComplete(progress[q.query_key], mk)

\* the keys of the snapshot whose record is completed
CompletedKeys(prog) == {qk \in DOMAIN prog : Get(prog[qk], "completed", FALSE) = TRUE}

RowsOf(q) ==
    {i \in DOMAIN merged.rows :
        /\ merged.rows[i]["Group"] = q.group
        /\ merged.rows[i]["Patient ID"] = q.patient_id
        /\ merged.rows[i]["Query"] = q.query_num}

\* the output cell and evaluator 1's rating for a metric key or "preference"
CellOf(row, mk) ==
    IF mk = "preference" THEN row["Model Preference"]
    ELSE IF EndsWith(mk, "_a")
    THEN row["Model A - " \o METRIC_COL_MAP[BaseOf(mk, "_a")][1]]
    ELSE row["Model B - " \o METRIC_COL_MAP[BaseOf(mk, "_b")][1]]
Evaluator1Rating(q, mk) ==
    IF mk = "preference" THEN q.evaluator_1.preference
    ELSE IF EndsWith(mk, "_a")
    THEN q.evaluator_1.model_a[BaseOf(mk, "_a")]
    ELSE q.evaluator_1.model_b[BaseOf(mk, "_b")]
AllMetricKeys ==
    {b \o "_a" : b \in MetricBases} \cup {b \o "_b" : b \in MetricBases} \cup {"preference"}

\* C3: in the merged output, the row of a disagreed query whose record is
\* completed shows the record's rating for every metric key of the query's
\* disagreements and evaluator 1's rating for every other metric.
C3_MergedRowCarriesAdjudicatedRatings ==
    merged.status = "ok" =>
        \A i \in DOMAIN DisagreementsFile :
            LET q == DisagreementsFile[i]
            IN is_completed(merged.read, q.query_key) =>
                  \A r \in RowsOf(q), mk \in AllMetricKeys :
                      IF mk \in Range(q.disagreements)
                      THEN /\ mk \in DOMAIN merged.read[q.query_key]
                           /\ "rating" \in DOMAIN merged.read[q.query_key][mk]
                           /\ CellOf(merged.rows[r], mk) = merged.read[q.query_key][mk].rating
                      ELSE CellOf(merged.rows[r], mk) = Evaluator1Rating(q, mk)

\* C4: merge puts a disagreed query in the missing list, and writes no row
\* for it, exactly when its record is absent or not completed; otherwise it
\* writes one row, marked adjudicated, and leaves it out of the missing list.
C4_DisagreedQueryIsRowOrMissing ==
    merged.status # "none" =>
        \A i \in DOMAIN DisagreementsFile :
            LET q == DisagreementsFile[i]
                adjudicated == /\ q.query_key \in DOMAIN merged.read
                               /\ Get(merged.read[q.query_key], "completed", FALSE) = TRUE
                missing == q.query_key \in Range(merged.missing)
            IN /\ missing <=> ~adjudicated
               /\ Cardinality(RowsOf(q)) = (IF adjudicated THEN 1 ELSE 0)
               /\ \A r \in RowsOf(q) : merged.rows[r]["Adjudication Status"] = "adjudicated"

\* a merge that met a query without record, one whose record is not
\* completed and one that is adjudicated
C4_Witness ==
    /\ merged.status = "ok"
    /\ "P1_1" \notin DOMAIN merged.read
    /\ "P2_1" \in DOMAIN merged.read /\ ~is_completed(merged.read, "P2_1")
    /\ {"P1_1", "P2_1"} \subseteq Range(merged.missing)
    /\ is_completed(merged.read, "P1_2")
    /\ \E r \in DOMAIN merged.rows :
          merged.rows[r]["Patient ID"] = "P1" /\ merged.rows[r]["Query"] = 2

\* C5: a click on Submit Adjudication whose form lacks a rating, has blank
\* findings or the placeholder root cause for some disagreed metric is
\* refused: the store is left as it was, no POST is started or answered,
\* and the session stays on the Review screen with the same query.
C5_IncompleteSubmitIsRejected ==
    [][(observed'.clicked /\ observed'.incomplete) =>
          /\ observed'.rejected
          /\ progress' = progress
          /\ pc = "idle" /\ pc' = "idle"
          /\ pending' = pending
          /\ sheets_ok' = sheets_ok
          /\ screen = 2 /\ screen' = 2
          /\ selected_query_key' = selected_query_key]_vars

\* an incomplete form was refused while the store already held a record
C5_Witness ==
    /\ observed.clicked /\ observed.incomplete /\ observed.rejected
    /\ screen = 2 /\ pc = "idle"
    /\ is_completed(progress, "P1_1")
    /\ selected_query_key = "P1_2"

\* C6: while the POST of a valid submit is in flight the record is already
\* in the store, completed; the step that ends the POST, whatever its
\* outcome, leaves the store alone and takes the session to the next open
\* query or back to the queue, and after an outcome other than 200 the
\* push has returned false.
C6_SaveThenPushThatNeverRaises ==
    [][(pc = "pushing") =>
          /\ is_completed(progress, selected_query_key)
          /\ progress[selected_query_key] = completed_record(pending)
          /\ pc' = "idle" =>
                /\ progress' = progress
                /\ observed'.outcome \in PushOutcomes
                /\ (observed'.outcome # "200" => sheets_ok' = FALSE)
                /\ (observed'.outcome = "200" => sheets_ok' = TRUE)
                /\ \/ screen' = 2 /\ selected_query_key' # selected_query_key
                   \/ screen' = 1]_vars

\* a POST that failed after an earlier one succeeded: the record is kept
\* and the session is on the next query
C6_Witness ==
    /\ observed.outcome \in {"500", "exception"}
    /\ sheets_ok = FALSE
    /\ is_completed(progress, "P1_1")
    /\ progress["P1_1"]["hallucination_a"].rating = YES
    /\ screen = 2 /\ selected_query_key = "P1_2"

---------------------------------------------------------------------------
(* Properties of the store's functions *)

\* the queries of disagreements.json by key
QueryOf(qk) == DisagreementsFile[CHOOSE i \in DOMAIN DisagreementsFile :
                                    DisagreementsFile[i].query_key = qk]

\* C11: save_adjudication(key, data), whatever the store holds for the key,
\* leaves under the key a record with completed = true, the instant of the
\* call and the fields of data, leaves every other key's record as it was,
\* and get_adjudication_status(key) then returns that record; for a key the
\* store does not hold get_adjudication_status returns None.
C11_SaveOverwritesOneKey ==
    /\ \A qk \in QueryKeys :
          \A data \in Forms(QueryOf(qk)) :
              LET after == save_adjudication(progress, qk, data)
              IN /\ DOMAIN after = DOMAIN progress \cup {qk}
                 /\ DOMAIN after[qk] = DOMAIN data \cup {"completed", "timestamp"}
                 /\ after[qk]["completed"] = TRUE
                 /\ after[qk]["timestamp"] = Now
                 /\ \A mk \in DOMAIN data : after[qk][mk] = data[mk]
                 /\ \A k \in DOMAIN progress \ {qk} : after[k] = progress[k]
                 /\ get_adjudication_status(after, qk) = after[qk]
    /\ \A qk \in QueryKeys \ DOMAIN progress :
          get_adjudication_status(progress, qk) = None

\* a save has replaced the completed record a rebuild had written for
\* P1_1 and left the P1_2 record of that rebuild alone
C11_Witness ==
    /\ recovered = 2
    /\ "P1_2" \in DOMAIN progress
    /\ progress["P1_2"]["flow_b"].root_cause = ROOT_CAUSE_UNSET
    /\ "P1_1" \in DOMAIN progress
    /\ progress["P1_1"]["timestamp"] = Now
    /\ progress["P1_1"]["hallucination_a"].rating = NO
    /\ "P2_1" \notin DOMAIN progress

\* the keys of a list of submissions that a rebuild writes: the submission
\* has a key and data, and the snapshot holds no completed record for the key
WrittenKeys(prog, submissions) ==
    {submissions[i].query_key : i \in
        {j \in DOMAIN submissions :
            /\ submissions[j].query_key # ""
            /\ submissions[j].adjudication_data # EmptyDict
            /\ ~is_completed(prog, submissions[j].query_key)}}

\* C12: rebuild_progress_from_sheets returns the number of distinct keys
\* whose record it wrote, and the snapshot is as before when that number is 0.
C12_RebuildCountsKeysWritten ==
    \A submissions \in RemoteLists :
        LET r == rebuild_progress_from_sheets(progress, submissions)
        IN /\ r.count = Cardinality(WrittenKeys(progress, submissions))
           /\ r.count = 0 => r.progress = progress

---------------------------------------------------------------------------
(* Properties of the session's traffic with the remote mirror *)

\* C13: a session sends at most one GET to the remote mirror; it sends it
\* at its first load of the disagreement data and only when the store is
\* empty; the step that loads the data changes the store only when it sent
\* the GET and the GET returned a non-empty list, and after a GET that
\* raised, answered another status or an empty list it has recovered 0
\* records and left the store as it was.
C13_PullOnceIntoEmptyStore ==
    [][/\ pulls' <= 1
       /\ pulls' > pulls =>
             /\ ~auto_recovery_attempted /\ auto_recovery_attempted'
             /\ progress = EmptyDict
             /\ observed'.get \in {"exception", "status", "empty", "list"}
       /\ (observed'.get = "none") <=> ~(pulls' > pulls)
       /\ (~observed'.clicked /\ progress' # progress) =>
             /\ pulls' > pulls
             /\ observed'.get = "list"
       /\ observed'.get \in {"exception", "status", "empty"} =>
             /\ progress' = progress
             /\ recovered' = 0]_vars

\* a session on the Dashboard whose GET raised on an empty store: nothing
\* recovered, the store still empty
C13_Witness ==
    /\ pulls = 1
    /\ auto_recovery_attempted
    /\ observed.get = "exception"
    /\ progress = EmptyDict
    /\ recovered = 0
    /\ screen = 3

---------------------------------------------------------------------------
(* Properties of the severity, the canonical ratings and the merged rows *)

\* the records whose evaluators differ, once trimmed, on the ratings of
\* hallucination for model A and on the preference, and on nothing else
ScenarioRecords ==
    {rec \in PreparedRecords : RawDifferences(rec, 1, 2) = {"hallucination_a", "preference"}}

\* C15 as stated: such a record has disagreements hallucination_a and
\* preference, is in the disagreed list with n_disagreements = 2, and its
\* severity is low.
C15_ScenarioSeverityLow ==
    prep.status = "ok" =>
        \A rec \in ScenarioRecords :
            /\ rec.disagreements = <<"hallucination_a", "preference">>
            /\ rec \in Range(prep.disagreements) /\ rec.n_disagreements = 2
            /\ get_severity_class(rec.n_disagreements) = "severity-low"

\* C15: such a record has disagreements hallucination_a and preference, is
\* in the disagreed list and not in the agreed one with n_disagreements = 2,
\* and its severity is medium.
C15_ScenarioSeverityMedium ==
    prep.status = "ok" =>
        \A rec \in ScenarioRecords :
            /\ rec.disagreements = <<"hallucination_a", "preference">>
            /\ rec \in Range(prep.disagreements)
            /\ PositionsOf(prep.agreed, rec.group, <<rec.patient_id, rec.query_num>>) = {}
            /\ rec.n_disagreements = 2
            /\ get_severity_class(rec.n_disagreements) = "severity-medium"

\* the scenario: the evaluators of (P1, 1) differ on the two fields, and
\* also on the findings, which do not count
C15_Witness ==
    /\ prep.status = "ok"
    /\ \E rec \in ScenarioRecords :
          /\ rec.query_key = "P1_1"
          /\ rec.evaluator_1.model_a["hallucination_findings"]
               # rec.evaluator_2.model_a["hallucination_findings"]
          /\ rec.evaluator_1.model_b["flow"] = rec.evaluator_2.model_b["flow"]

\* the largest disagreement count: 6 metrics for 2 models and the preference
MaxDisagreements == 2 * Len(MetricOrder) + 1

\* C16: get_severity_class gives low for 0 and 1 disagreements, medium for
\* 2 and 3, high from 4 on, for every count and so for every record built.
C16_SeverityByCount ==
    /\ \A n \in 0..MaxDisagreements :
          get_severity_class(n) = CASE n \in 0..1 -> "severity-low"
                                    [] n \in 2..3 -> "severity-medium"
                                    [] OTHER      -> "severity-high"
    /\ \A rec \in PreparedRecords :
          /\ get_severity_class(rec.n_disagreements)
               \in {"severity-low", "severity-medium", "severity-high"}
          /\ get_severity_class(rec.n_disagreements) = "severity-low"
               <=> rec.n_disagreements < 2
          /\ get_severity_class(rec.n_disagreements) = "severity-high"
               <=> rec.n_disagreements > 3

\* one prepared partition with records of 1, 3 and 13 disagreements
C16_Witness ==
    /\ prep.status = "ok"
    /\ \E rec \in PreparedRecords : rec.n_disagreements = 1
    /\ \E rec \in PreparedRecords : rec.n_disagreements = MaxDisagreements
    /\ \E rec \in PreparedRecords : rec.n_disagreements = 3

\* C17: in every record of the agreed list the canonical rating of each of
\* the 6 metrics for each model and the canonical preference are evaluator
\* 1's value and evaluator 2's value, which are the trimmed cells of the
\* two evaluators' rows.
C17_CanonicalIsBothEvaluators ==
    prep.status = "ok" =>
        \A i \in DOMAIN prep.agreed :
            LET rec == prep.agreed[i]
            IN /\ \A b \in MetricBases :
                     /\ rec.canonical.model_a[b] = rec.evaluator_1.model_a[b]
                     /\ rec.canonical.model_a[b] = rec.evaluator_2.model_a[b]
                     /\ rec.canonical.model_a[b] = Trimmed(RawRow(rec, 2), METRIC_COLS_A[b][1])
                     /\ rec.canonical.model_b[b] = rec.evaluator_1.model_b[b]
                     /\ rec.canonical.model_b[b] = rec.evaluator_2.model_b[b]
                     /\ rec.canonical.model_b[b] = Trimmed(RawRow(rec, 2), METRIC_COLS_B[b][1])
               /\ rec.canonical.preference = rec.evaluator_1.preference
               /\ rec.canonical.preference = rec.evaluator_2.preference
               /\ rec.canonical.preference = Trimmed(RawRow(rec, 2), "Model Preference")

\* an agreed record whose evaluators wrote the same rating with and without
\* blanks around it, and different findings
C17_Witness ==
    /\ prep.status = "ok"
    /\ \E i \in DOMAIN prep.agreed :
          LET rec == prep.agreed[i]
          IN /\ rec.group = "A" /\ rec.patient_id = "P1"
             /\ RawRow(rec, 1).cells["Hallucination - Fabrication"] = <<SP, "Y", SP>>
             /\ RawRow(rec, 2).cells["Hallucination - Fabrication"] = YES
             /\ rec.canonical.model_a["hallucination"] = YES
             /\ rec.canonical.model_a["hallucination_findings"]
                  # rec.evaluator_2.model_a["hallucination_findings"]

\* C18: whatever the store holds, merge writes for every agreed query one
\* row, marked agreed, whose 12 metric values and preference are the
\* query's canonical ratings.
C18_AgreedRowIsCanonical ==
    merged.status # "none" =>
        \A i \in DOMAIN AgreedFile :
            LET q == AgreedFile[i]
            IN /\ Cardinality(RowsOf(q)) = 1
               /\ \A r \in RowsOf(q) :
                     /\ merged.rows[r]["Adjudication Status"] = "agreed"
                     /\ merged.rows[r]["Model Preference"] = q.canonical.preference
                     /\ \A b \in MetricBases :
                           /\ CellOf(merged.rows[r], b \o "_a") = q.canonical.model_a[b]
                           /\ CellOf(merged.rows[r], b \o "_b") = q.canonical.model_b[b]

\* a merge that read a store holding, under the key of the agreed query
\* P2_2, a completed record with another flow rating for model B
C18_Witness ==
    /\ merged.status = "ok"
    /\ is_completed(merged.read, "P2_2")
    /\ merged.read["P2_2"]["flow_b"].rating = NO
    /\ \E i \in DOMAIN AgreedFile :
          /\ AgreedFile[i].query_key = "P2_2"
          /\ AgreedFile[i].canonical.model_b["flow"] = YES
          /\ AgreedFile[i].canonical.model_a["flow"] = NO

---------------------------------------------------------------------------
(* Properties of the progress aggregates *)

\* the lists the aggregates are asked about: no query, the queries of
\* disagreements.json, those with the agreed ones, and a list of ten (the
\* three of disagreements.json and seven the store never holds)
TenQueries ==
    DisagreementsFile \o
    [i \in 1..7 |-> [DisagreementsFile[1] EXCEPT !.query_key = query_key_of("P9", i)]]
QueryLists == {<<>>, DisagreementsFile, AgreedFile \o DisagreementsFile, TenQueries}

\* what the claim says of one returned dictionary r for the queries qs
AggregateOf(r, qs) ==
    LET done == {i \in DOMAIN qs :
                    /\ qs[i].query_key \in DOMAIN progress
                    /\ "completed" \in DOMAIN progress[qs[i].query_key]
                    /\ progress[qs[i].query_key]["completed"]}
    IN /\ r.total = Len(qs)
       /\ r.completed = Cardinality(done)
       /\ r.remaining = r.total - r.completed
       /\ 0 <= r.completed /\ r.completed <= r.total
       /\ r.percent.den > 0
       /\ r.total > 0 => r.percent.num * r.total = r.percent.den * r.completed * 100
       /\ r.total = 0 => r.percent.num = 0
       /\ (r.total = 10 /\ r.completed = 3) =>
              r.remaining = 7 /\ r.percent.num = 30 * r.percent.den

\* C19: get_all_progress and get_group_progress return total = the number
\* of queries considered, completed = the number of those whose stored
\* record is completed, remaining = total - completed with
\* 0 <= completed <= total, and percent = completed / total * 100, which is
\* 0 when total = 0; ten queries of which three are completed give 10, 3,
\* 7 and 30.
C19_ProgressAggregate ==
    \A qs \in QueryLists :
        /\ AggregateOf(get_all_progress(progress, qs), qs)
        /\ \A g \in Groups \cup {NoGroup} :
              AggregateOf(get_group_progress(progress, g, qs),
                          SelectSeq(qs, LAMBDA d : d.group = g))

\* the three disagreed queries are completed in the store, so the list of
\* ten counts 3 of 10 and group A 2 of 2, and no query of
\* disagreements.json is of group C
C19_Witness ==
    /\ get_all_progress(progress, TenQueries).completed = 3
    /\ get_all_progress(progress, TenQueries).total = 10
    /\ get_group_progress(progress, "A", DisagreementsFile).completed = 2
    /\ get_group_progress(progress, "C", DisagreementsFile).total = 0

\* the aggregates of a store: over all queries and per group
Aggregates(prog) ==
    [all |-> get_all_progress(prog, DisagreementsFile),
     groups |-> [g \in Groups |-> get_group_progress(prog, g, DisagreementsFile)]]

\* C20: save_adjudication called twice with the same key and data leaves
\* the same progress aggregates as the one call, and a save for a key whose
\* record is completed leaves total, completed, remaining and percent as
\* they were.
C20_ResubmissionKeepsAggregate ==
    \A qk \in QueryKeys :
        \A data \in {f \in Forms(QueryOf(qk)) : submit_accepted(f)} :
            LET once == save_adjudication(progress, qk, data)
                twice == save_adjudication(once, qk, data)
            IN /\ Aggregates(twice) = Aggregates(once)
               /\ is_completed(progress, qk) => Aggregates(once) = Aggregates(progress)

\* the store holds for P1_1 the completed record of a save, which the same
\* save would write again, beside a query that is not completed
C20_Witness ==
    /\ is_completed(progress, "P1_1")
    /\ progress["P1_1"]["timestamp"] = Now
    /\ \E data \in {f \in Forms(QueryOf("P1_1")) : submit_accepted(f)} :
          save_adjudication(progress, "P1_1", data) = progress
    /\ get_all_progress(progress, DisagreementsFile).completed = 1
    /\ get_all_progress(progress, DisagreementsFile).remaining = 2

---------------------------------------------------------------------------
(* Properties of the calibration export *)

\* the rows export_calibration_data returns for the store as it is
CalibrationRows == export_calibration_data(progress, DisagreementsFile, 1)
\* the rows of one query and metric key
CalibrationRowsOf(q, mk) ==
    {r \in DOMAIN CalibrationRows :
        /\ CalibrationRows[r].query_key = q.query_key
        /\ CalibrationRows[r].metric = mk}

\* C21: export_calibration_data returns exactly one row for each disagreed
\* query whose record is completed and each key of its disagreements, and no
\* row for a query whose record is absent or not completed; the row carries
\* the two evaluators' ratings for the key, which differ, and the rating and
\* the root cause the record stores for the key.
C21_CalibrationRowPerDisagreedMetric ==
    /\ \A r \in DOMAIN CalibrationRows :
          \E i \in DOMAIN DisagreementsFile :
              /\ CalibrationRows[r].query_key = DisagreementsFile[i].query_key
              /\ CalibrationRows[r].metric \in Range(DisagreementsFile[i].disagreements)
    /\ \A i \in DOMAIN DisagreementsFile :
          LET q == DisagreementsFile[i]
          IN IF is_completed(progress, q.query_key)
             THEN \A mk \in Range(q.disagreements) :
                     /\ Cardinality(CalibrationRowsOf(q, mk)) = 1
                     /\ \A r \in CalibrationRowsOf(q, mk) :
                           LET row == CalibrationRows[r]
                               rec == progress[q.query_key]
                           IN /\ row.evaluator_1_rating = Evaluator1Rating(q, mk)
                              /\ row.evaluator_1_rating # row.evaluator_2_rating
                              /\ mk \in DOMAIN rec
                              /\ {"rating", "root_cause"} \subseteq DOMAIN rec[mk]
                              /\ row.adjudicated_rating = rec[mk].rating
                              /\ row.root_cause = rec[mk].root_cause
             ELSE \A mk \in AllMetricKeys : CalibrationRowsOf(q, mk) = {}

---------------------------------------------------------------------------
(* Properties of save_adjudication step by step *)

\* C24: when the load and save steps of the save_adjudication calls of two
\* sessions interleave, every key whose call has returned is present and
\* completed in the store once all calls have returned.
C24_NoLostUpdate ==
    (\A s \in Sessions : calls[s].pc = "idle") =>
        \A k \in saved : is_completed(load_progress(progress, unreadable), k)

\* C26: load_progress returns the empty map for a snapshot that is missing
\* or unreadable, and a save_adjudication(k, d) whose load met an unreadable
\* snapshot writes a readable snapshot that holds the completed record of
\* k and no other key.
C26_SaveAfterUnreadableKeepsOneKey ==
    /\ [](unreadable => load_progress(progress, unreadable) = EmptyDict)
    /\ [][\A s \in Sessions :
             (calls[s].pc = "loaded" /\ calls'[s].pc = "idle" /\ calls[s].blind) =>
                 /\ ~unreadable'
                 /\ DOMAIN progress' = {calls[s].query_key}
                 /\ is_completed(progress', calls[s].query_key)]_vars

\* the last call to return had loaded an unreadable snapshot; the file held
\* records of other keys before its write and holds its key alone after
C26_Witness ==
    /\ last_save.blind
    /\ last_save.before \ {last_save.query_key} # {}
    /\ DOMAIN progress = {last_save.query_key}
    /\ ~unreadable

---------------------------------------------------------------------------
(* Properties of the store over time *)

\* C25: no save_adjudication and no rebuild_progress_from_sheets call takes
\* a key out of the set of keys whose stored record is completed, so the
\* completed count get_all_progress reports for disagreements.json never
\* decreases.
C25_CompletedNeverShrinks ==
    [][/\ CompletedKeys(progress) \subseteq CompletedKeys(progress')
       /\ get_all_progress(progress', DisagreementsFile).completed
              >= get_all_progress(progress, DisagreementsFile).completed]_vars

\* a rebuild has written two records and a save has then replaced the one of
\* P1_1 and added the one of P2_1: three queries are completed
C25_Witness ==
    /\ recovered = 2
    /\ get_all_progress(progress, DisagreementsFile).completed = 3
    /\ progress["P1_1"]["hallucination_a"].rating = NO
    /\ progress["P1_2"]["flow_b"].root_cause = ROOT_CAUSE_UNSET

---------------------------------------------------------------------------
(* Properties of the navigation after a submit *)

\* every query of the group g has a completed record
GroupCompleted(g) ==
    \A i \in DOMAIN get_group_disagreements(g) :
        is_completed(progress, get_group_disagreements(g)[i].query_key)

\* C27: the end of an accepted submit leaves the session on Review with a
\* selected query of the logged-in group that is not completed and is not
\* the one just submitted, or, every query of the group being completed, on
\* the Queue screen; a session on Review that goes on submitting complete
\* forms therefore reaches a store in which every query of its group is
\* completed.
C27_SubmitMovesToNextOrQueue ==
    /\ [][(pc = "pushing" /\ pc' = "idle") =>
            \/ /\ screen' = 2
               /\ selected_query_key' # selected_query_key
               /\ ~is_completed(progress', selected_query_key')
               /\ \E i \in DOMAIN get_group_disagreements(group) :
                     get_group_disagreements(group)[i].query_key = selected_query_key'
            \/ /\ screen' = 1
               /\ \A i \in DOMAIN get_group_disagreements(group) :
                     is_completed(progress', get_group_disagreements(group)[i].query_key)]_vars
    /\ \A g \in Groups : (screen = 2 /\ group = g) ~> GroupCompleted(g)

\* group A's session is back on the Queue after the POST of its last
\* submit, both queries of the group completed by its own submits
C27_Witness ==
    /\ group = "A" /\ screen = 1 /\ pc = "idle"
    /\ observed.outcome # "none"
    /\ recovered = 0
    /\ GroupCompleted("A")

---------------------------------------------------------------------------
(* Properties of the session's screens *)

\* C28: the screen is Login (0), Queue (1), Review (2) or Dashboard (3); on
\* Queue and Review a group of A, B, C is logged in; on Review the selected
\* query is a disagreed query of that group; the Dashboard is shown only
\* while is_admin is true; and a password check that fails leaves the
\* session on Login.
C28_ScreensAndLogin ==
    /\ [](/\ screen \in 0..3
          /\ screen \in {1, 2} => group \in Groups
          /\ screen = 2 =>
                \E i \in DOMAIN DisagreementsFile :
                    /\ DisagreementsFile[i].query_key = selected_query_key
                    /\ DisagreementsFile[i].group = group
          /\ screen = 3 => is_admin)
    /\ [][(~login_error /\ login_error') =>
              screen = 0 /\ screen' = 0 /\ group' = group /\ is_admin' = is_admin]_vars

\* group B's session, logged in after its one recovery attempt and not an
\* admin, is on Review with the group's query P2_1
C28_Witness ==
    /\ screen = 2 /\ group = "B" /\ selected_query_key = "P2_1"
    /\ login_error = FALSE /\ ~is_admin
    /\ auto_recovery_attempted

---------------------------------------------------------------------------
(* Properties of the primary evaluation store *)

\* the key of a row of the CSV export, as the Query List looks it up
RowKey(row) == eval_key(row.evaluator, row.patient_id, normalize_query_num(row.query_num))

\* C22: after the recovery script has rebuilt the store from an export of
\* the sheet, the store holds for every submitted evaluation of the export
\* (evaluator, patient, query) a record with comparison_done = true.
C22_RecoveryMarksSubmissionsDone ==
    \A rows \in CsvExports :
        LET after == recover_progress(evaluations, rows)
        IN \A i \in DOMAIN rows :
              rows[i].evaluator = TheEvaluator =>
                  /\ RowKey(rows[i]) \in DOMAIN after
                  /\ after[RowKey(rows[i])].comparison_done

\* C23: whatever the submissions are, rebuild_progress_from_submissions
\* leaves the model_a_data, model_b_data and comparison_data of every
\* record whose comparison_done is true as they were.
C23_LocalCompletedWins ==
    \A submissions \in SheetSubmissions :
        LET after == rebuild_progress_from_submissions(evaluations, submissions)
        IN \A key \in DOMAIN evaluations :
              evaluations[key].comparison_done =>
                  /\ after[key].model_a_data = evaluations[key].model_a_data
                  /\ after[key].model_b_data = evaluations[key].model_b_data
                  /\ after[key].comparison_data = evaluations[key].comparison_data

\* C29: every record of the store with model_a_graded = true has
\* started = true.
C29_GradedImpliesStarted ==
    \A key \in DOMAIN evaluations :
        evaluations[key].model_a_graded => evaluations[key].started

\* C30: every record of the store with comparison_done = true has
\* model_a_graded = true and model_b_graded = true.
C30_DoneImpliesBothGraded ==
    \A key \in DOMAIN evaluations :
        evaluations[key].comparison_done =>
            evaluations[key].model_a_graded /\ evaluations[key].model_b_graded

=============================================================================
